---- MODULE Spec2Model ----
(***************************************************************************)
(* Model of the multi-file sales data processor                            *)
(* (src/scripts/multi_file_processor.py, class MultiFileProcessor, and the *)
(* single-file helpers of src/scripts/data_utils.py).                      *)
(*                                                                         *)
(* A DataFrame is a record [columns, rows]: columns is the sequence of     *)
(* column labels (labels may repeat, as in pandas), and each row is a      *)
(* sequence of cells aligned with columns.  A cell is a tagged record:     *)
(*   [k |-> "nan"]  missing (np.nan / NaT)                                 *)
(*   [k |-> "num"]  a number, v in fixed point (v = value * Unit)          *)
(*   [k |-> "text"] a string                                               *)
(*   [k |-> "date"] a parsed date, v = day number                          *)
(*   [k |-> "file"] the string of a file name, v = <<stem, suffix>>        *)
(***************************************************************************)
EXTENDS Integers, Sequences, FiniteSets, TLC

VARIABLES
    processed_files,   \* self.processed_files: ordered dict, as a sequence of entries
    combined_data,     \* self.combined_data: None (<<>>) or <<DataFrame>>
    ret,               \* what the last call returned or raised
    call,              \* the last call and its arguments
    written,           \* files written by save_results: sequence of [file, content]
    clock,             \* datetime.now(), in seconds
    succeeded,         \* history: the paths process_single_file has completed for
    col,               \* a Quantity column under the outlier clamp
    prev,              \* the same column before the latest clamp
    applied,           \* how many times the clamp has been applied to col
    orig,              \* the column as first drawn
    df_in,             \* a mapped table handed to basic_data_cleaning
    df_out,            \* what basic_data_cleaning returned for df_in (<<>> before the call)
    pc,                \* where a running process_multiple_files call is
    loop_i,            \* its loop counter i (enumerate(file_paths, 1))
    results,           \* its local dict results
    local,             \* the locals of the process_single_file call it is in
    progress_callback, \* whether it was given a progress_callback
    history,           \* history: the steps it has completed, oldest first
    disk,              \* the files and directories under the scanned directory
    directory,         \* the directory handed to scan_directory, and the platform
    scanned,           \* what scan_directory returned or raised (<<>> before the call)
    tables,            \* a combined_data_list handed to the fallback tier
    fallback           \* self.combined_data as the fallback left it (<<>> before)

vars == <<processed_files, combined_data, ret, call, written, clock, succeeded,
          col, prev, applied, orig, df_in, df_out,
          pc, loop_i, results, local, progress_callback, history,
          disk, directory, scanned, tables, fallback>>

sessionVars == <<processed_files, combined_data, ret, call, written, clock, succeeded>>
clampVars == <<col, prev, applied, orig>>
cleanVars == <<df_in, df_out>>
loopVars == <<pc, loop_i, results, local, progress_callback, history>>
scanVars == <<disk, directory, scanned>>
fallbackVars == <<tables, fallback>>

--------------------------------------------------------------------------
(* Bounds of the model *)

\* how many times in a row the clamp is applied to one column
MaxApply == 2
\* longest list of paths handed to process_multiple_files
MaxBatch == 2
\* longest Quantity column drawn for the clamp
MaxLen == 5
\* largest Quantity drawn for the clamp (whole units)
MaxQty == 3
\* how many seconds the clock can advance
MaxClock == 1
\* most rows of a table handed to the cleaner
MaxRows == 3
\* rows of a table of distinct orders
MaxOrders == 4
\* most tables handed to the fallback tier on its own
MaxTables == 3
\* products of a table handed to the summarizer (one more than head(10) keeps)
MaxProducts == 11

\* Fixed point: a number x is stored as x * Unit.  Each clamp divides by 8
\* (quartile weights are quarters, the bound adds 1.5 * IQR), so 8^MaxApply
\* keeps MaxApply successive clamps exact; one more factor of 8 makes the step
\* finer than a cent, so that round(2) in the summarizer is not the identity.
Unit == 8 ^ (MaxApply + 1)

--------------------------------------------------------------------------
(* Cells *)

NaN == [k |-> "nan", v |-> 0]
Num(x) == [k |-> "num", v |-> x * Unit]
Text(s) == [k |-> "text", v |-> s]
Date(d) == [k |-> "date", v |-> d]
FileCell(name) == [k |-> "file", v |-> name]

isnull(c) == c.k = "nan"
IsNum(c) == c.k = "num"

None == <<>>
Some(x) == <<x>>

Range(s) == {s[i] : i \in DOMAIN s}

\* the elements of s at the positions in keep, in order
RECURSIVE Pick(_, _, _)
Pick(s, keep, i) ==
    IF i > Len(s) THEN <<>>
    ELSE (IF i \in keep THEN <<s[i]>> ELSE <<>>) \o Pick(s, keep, i + 1)

RECURSIVE SumSeq(_)
SumSeq(s) == IF s = <<>> THEN 0 ELSE Head(s) + SumSeq(Tail(s))

--------------------------------------------------------------------------
(* DataFrame helpers (pandas operations the code relies on) *)

DataFrame(columns, rows) == [columns |-> columns, rows |-> rows]

Positions(df, c) == {i \in DOMAIN df.columns : df.columns[i] = c}
HasColumn(df, c) == Positions(df, c) # {}
Duplicated(df, c) == Cardinality(Positions(df, c)) > 1
ColumnsDuplicated(df) == \E c \in Range(df.columns) : Duplicated(df, c)
ColPos(df, c) == CHOOSE i \in Positions(df, c) : \A j \in Positions(df, c) : i <= j

\* df[c] for a label that occurs once: the column's cells, in row order
Column(df, c) == [r \in DOMAIN df.rows |-> df.rows[r][ColPos(df, c)]]

\* df[c] = vals: overwrites every column labelled c, or appends a new last column
SetColumn(df, c, vals) ==
    IF HasColumn(df, c)
    THEN DataFrame(df.columns,
                   [r \in DOMAIN df.rows |->
                       [i \in DOMAIN df.columns |->
                           IF df.columns[i] = c THEN vals[r] ELSE df.rows[r][i]]])
    ELSE DataFrame(Append(df.columns, c),
                   [r \in DOMAIN df.rows |-> Append(df.rows[r], vals[r])])

\* df[c] = scalar
SetColumnScalar(df, c, x) == SetColumn(df, c, [r \in DOMAIN df.rows |-> x])

\* every label the model uses, in Python's string order (code points: upper case
\* before lower case, "_" after the upper-case letters)
SortedLabels ==
    <<" Cost ", "Cost", "Country", "Customer_ID", "Date", "Item", "OrderID",
      "Order_Date", "Order_Date_1", "Order_ID", "Price", "Product", "Product_1", "Qty", "Quantity", "Region",
      "Sales", "Source_File", "X", "Y", "Z", "price">>

\* sorted(labels) for a set of labels
SortedCols(S) == SelectSeq(SortedLabels, LAMBDA c : c \in S)

--------------------------------------------------------------------------
(* SchemaMapper: standardize_columns *)

\* col.lower().strip() for the labels the model uses
LowerStrip(c) ==
    CASE c = " Cost "      -> "cost"
      [] c = "Cost"        -> "cost"
      [] c = "Country"     -> "country"
      [] c = "Customer_ID" -> "customer_id"
      [] c = "Date"        -> "date"
      [] c = "Item"        -> "item"
      [] c = "OrderID"     -> "orderid"
      [] c = "Order_Date"  -> "order_date"
      [] c = "Order_ID"    -> "order_id"
      [] c = "Price"       -> "price"
      [] c = "Product"     -> "product"
      [] c = "Qty"         -> "qty"
      [] c = "Quantity"    -> "quantity"
      [] c = "Region"      -> "region"
      [] c = "Sales"       -> "sales"
      [] c = "Source_File" -> "source_file"
      [] c = "X"           -> "x"
      [] c = "Y"           -> "y"
      [] c = "Z"           -> "z"
      [] c = "price"       -> "price"

column_mapping ==
    [order_id |-> "Order_ID", orderid |-> "Order_ID", invoice |-> "Order_ID",
     invoiceno |-> "Order_ID", transaction_id |-> "Order_ID",
     product |-> "Product", product_name |-> "Product", description |-> "Product",
     stockcode |-> "Product", item |-> "Product",
     quantity |-> "Quantity", qty |-> "Quantity", amount |-> "Quantity",
     price |-> "Price", unit_price |-> "Price", unitprice |-> "Price", cost |-> "Price",
     date |-> "Order_Date", order_date |-> "Order_Date", invoicedate |-> "Order_Date",
     transaction_date |-> "Order_Date",
     region |-> "Region", country |-> "Region", location |-> "Region", area |-> "Region",
     customer |-> "Customer_ID", customer_id |-> "Customer_ID",
     customerid |-> "Customer_ID"]

\* variant: the column name is looked up as it is, not lower-cased and stripped
NewColumn_Exact(c) == IF c \in DOMAIN column_mapping THEN column_mapping[c] ELSE c

\* new_columns[col] of standardize_columns
NewColumn(c) ==
    IF LowerStrip(c) \in DOMAIN column_mapping THEN column_mapping[LowerStrip(c)] ELSE c

\* variant: df_copy = df, the same object under a second name
copy_SameObject(df) == [data |-> df, same_object |-> TRUE]

\* df.copy(): a new object with the same content
copy(df) == [data |-> df, same_object |-> FALSE]

\* the caller's table after the callee has worked in place on w (rename(inplace=True),
\* column assignment, fillna/drop_duplicates(inplace=True)) and left it as result
CallerTable(df, w, result) == IF w.same_object THEN result ELSE df

\* variant: the columns are renamed and no Source_File column is added
standardize_columns_NoSource(df, file_name) ==
    DataFrame([i \in DOMAIN df.columns |-> NewColumn(df.columns[i])], copy(df).data.rows)

\* variant: a Source_File column the file already has is left as it is
standardize_columns_KeepSource(df, file_name) ==
    LET renamed == DataFrame([i \in DOMAIN df.columns |-> NewColumn(df.columns[i])],
                             df.rows)
    IN  IF HasColumn(renamed, "Source_File") THEN renamed
        ELSE SetColumnScalar(renamed, "Source_File", FileCell(file_name))

\* df_copy.rename(columns=new_columns); df_copy['Source_File'] = file_name
standardize_columns(df, file_name) ==
    LET renamed == DataFrame([i \in DOMAIN df.columns |-> NewColumn(df.columns[i])],
                             copy(df).data.rows)
    IN  SetColumnScalar(renamed, "Source_File", FileCell(file_name))

\* the table the caller passed to standardize_columns, after the call
standardize_columns_caller(df, file_name) ==
    CallerTable(df, copy(df), standardize_columns(df, file_name))

--------------------------------------------------------------------------
(* RecordCleaner: basic_data_cleaning *)

required_cols == <<"Order_ID", "Product", "Quantity", "Price", "Order_Date", "Region">>

\* all(col in df.columns for col in required_cols)
has_sales_data(df) == \A i \in DOMAIN required_cols : HasColumn(df, required_cols[i])

\* the non-missing numbers of a column, ascending
SortedValues(cells) ==
    LET idx == {i \in DOMAIN cells : IsNum(cells[i])}
        vals == Pick([i \in DOMAIN cells |-> cells[i].v], idx, 1)
    IN  SortSeq(vals, LAMBDA a, b : a < b)

\* Series.median(): the middle value, or the mean of the two middle values; NaN when
\* the column has no number
median(cells) ==
    LET s == SortedValues(cells)
        n == Len(s)
    IN  IF n = 0 THEN NaN
        ELSE IF n % 2 = 1 THEN [k |-> "num", v |-> s[(n + 1) \div 2]]
        ELSE [k |-> "num", v |-> (s[n \div 2] + s[n \div 2 + 1]) \div 2]

\* Series.fillna(x)
fillna(cells, x) == [i \in DOMAIN cells |-> IF isnull(cells[i]) THEN x ELSE cells[i]]

\* variant: keep='last'
drop_duplicates_KeepLast(df) ==
    DataFrame(df.columns,
              Pick(df.rows,
                   {i \in DOMAIN df.rows :
                       \A j \in (i + 1)..Len(df.rows) : df.rows[j] # df.rows[i]},
                   1))

\* DataFrame.drop_duplicates(): keeps the first of equal rows, in order
drop_duplicates(df) ==
    DataFrame(df.columns,
              Pick(df.rows,
                   {i \in DOMAIN df.rows : \A j \in 1..(i - 1) : df.rows[j] # df.rows[i]},
                   1))

\* the date strings the model uses that pandas can parse, as day numbers
ParsableDates == ("2023-01-01" :> 1) @@ ("2023-01-02" :> 2)

\* pd.to_datetime(x, errors='coerce') on one cell
to_datetime(c) ==
    IF c.k = "text"
    THEN (IF c.v \in DOMAIN ParsableDates THEN Date(ParsableDates[c.v]) ELSE NaN)
    ELSE c

\* the strings the model uses that to_numeric can parse, with their values
ParsableNumbers == ("10" :> 10) @@ ("1010" :> 1010) @@ ("101010" :> 101010)

\* pd.to_numeric(x, errors='coerce') on one cell
to_numeric(c) ==
    IF IsNum(c) THEN c
    ELSE IF c.k = "text" /\ c.v \in DOMAIN ParsableNumbers THEN Num(ParsableNumbers[c.v])
    ELSE NaN

\* 4 * Series.quantile(j / 4), linear interpolation between the order statistics
\* around position (n - 1) * j / 4 (0-based) of the non-missing values
Quantile4(s, j) ==
    LET n == Len(s)
        lo == ((n - 1) * j) \div 4
        w == ((n - 1) * j) % 4
    IN  IF w = 0 THEN 4 * s[lo + 1]
        ELSE 4 * s[lo + 1] + w * (s[lo + 2] - s[lo + 1])

\* 8 * upper_bound, upper_bound = Q3 + 1.5 * (Q3 - Q1)
UpperBound8(s) == 5 * Quantile4(s, 3) - 3 * Quantile4(s, 1)

\* variant: the values above Q3, not those above the bound, become the bound
ClampQuantity_AboveQ3(cells) ==
    LET s == SortedValues(cells)
    IN  IF s = <<>> THEN cells
        ELSE [i \in DOMAIN cells |->
                 IF IsNum(cells[i]) /\ 4 * cells[i].v > Quantile4(s, 3)
                 THEN [k |-> "num", v |-> UpperBound8(s) \div 8]
                 ELSE cells[i]]

\* variant: values below Q1 - 1.5 * IQR are raised to that lower bound as well
ClampQuantity_BothSides(cells) ==
    LET s == SortedValues(cells)
    IN  IF s = <<>> THEN cells
        ELSE [i \in DOMAIN cells |->
                 IF IsNum(cells[i]) /\ 8 * cells[i].v > UpperBound8(s)
                 THEN [k |-> "num", v |-> UpperBound8(s) \div 8]
                 ELSE IF IsNum(cells[i])
                         /\ 8 * cells[i].v < 5 * Quantile4(s, 1) - 3 * Quantile4(s, 3)
                 THEN [k |-> "num", v |-> (5 * Quantile4(s, 1) - 3 * Quantile4(s, 3)) \div 8]
                 ELSE cells[i]]

\* step 5 on the Quantity cells: values above the upper bound become the bound;
\* with no number in the column the bound is NaN and nothing compares above it
ClampQuantity(cells) ==
    LET s == SortedValues(cells)
    IN  IF s = <<>> THEN cells
        ELSE [i \in DOMAIN cells |->
                 IF IsNum(cells[i]) /\ 8 * cells[i].v > UpperBound8(s)
                 THEN [k |-> "num", v |-> UpperBound8(s) \div 8]
                 ELSE cells[i]]

\* n * s for a Python str: s repeated n times
RECURSIVE Repeat(_, _)
Repeat(s, n) == IF n <= 0 THEN "" ELSE s \o Repeat(s, n - 1)

\* Quantity * Price on one row; an integer times a string (a cell of an object
\* column) is the string repeated
Times(q, p) ==
    IF IsNum(q) /\ IsNum(p) THEN [k |-> "num", v |-> (q.v * p.v) \div Unit]
    ELSE IF IsNum(q) /\ p.k = "text" THEN Text(Repeat(p.v, q.v \div Unit))
    ELSE NaN

\* the column has dtype int64: every cell a whole number
IntegerColumn(cells) == \A r \in DOMAIN cells : IsNum(cells[r]) /\ cells[r].v % Unit = 0

MapColumn(df, c, F(_)) ==
    SetColumn(df, c, [r \in DOMAIN df.rows |-> F(Column(df, c)[r])])

HasText(df, c) == \E r \in DOMAIN df.rows : Column(df, c)[r].k \notin {"num", "nan"}

FillPrice(df) ==
    LET price == Column(df, "Price")
    IN  IF \E r \in DOMAIN price : isnull(price[r])
        THEN SetColumn(df, "Price", fillna(price, median(price)))
        ELSE df

FillRegion(df) == SetColumn(df, "Region", fillna(Column(df, "Region"), Text("Unknown")))

ParseOrderDate(df) ==
    IF Duplicated(df, "Order_Date") THEN df   \* to_datetime raises, caught (lines 193-197)
    ELSE MapColumn(df, "Order_Date", to_datetime)

ClampOutliers(df) == SetColumn(df, "Quantity", ClampQuantity(Column(df, "Quantity")))

DeriveSales(df) ==
    SetColumn(df, "Sales",
              [r \in DOMAIN df.rows |-> Times(Column(df, "Quantity")[r], Column(df, "Price")[r])])

CoerceNumeric(df) ==
    MapColumn(MapColumn(MapColumn(df, "Quantity", to_numeric), "Price", to_numeric),
              "Sales", to_numeric)

\* variant: duplicates are dropped before the Price median is taken
FullCleaning_DedupFirst(df) ==
    CoerceNumeric(DeriveSales(ClampOutliers(ParseOrderDate(
        FillRegion(FillPrice(drop_duplicates(df)))))))

\* variant: Quantity is clamped before duplicates are dropped
FullCleaning_ClampFirst(df) ==
    CoerceNumeric(DeriveSales(ParseOrderDate(
        drop_duplicates(ClampOutliers(FillRegion(FillPrice(df)))))))

\* steps 1-7 of the sales data branch, in the order of the code
FullCleaning(df) ==
    CoerceNumeric(DeriveSales(ClampOutliers(ParseOrderDate(
        drop_duplicates(FillRegion(FillPrice(df)))))))

PartialDates(df, c) ==
    IF HasColumn(df, c) /\ ~Duplicated(df, c) THEN MapColumn(df, c, to_datetime) ELSE df

PartialNumeric(df, c) == IF HasColumn(df, c) THEN MapColumn(df, c, to_numeric) ELSE df

\* variant: the partial branch drops repeated rows as the full branch does
PartialCleaning_Dedup(df) ==
    drop_duplicates(
        PartialNumeric(PartialNumeric(PartialNumeric(
            PartialDates(PartialDates(PartialDates(df, "Order_Date"), "date"), "Date"),
            "Quantity"), "Price"), "Sales"))

PartialCleaning(df) ==
    PartialNumeric(PartialNumeric(PartialNumeric(
        PartialDates(PartialDates(PartialDates(df, "Order_Date"), "date"), "Date"),
        "Quantity"), "Price"), "Sales")

\* the full (sales data) branch raises for these tables: a column selected by a
\* repeated label is a DataFrame, whose truth value / scalar use raises; quantile
\* raises on a Quantity holding strings; with strings in Price, median raises when
\* step 1 computes it (a Price is missing), and Quantity * Price raises when
\* Quantity is a float column at step 6 (float times str)
FullCleaningRaises(df) ==
    \/ Duplicated(df, "Price") \/ Duplicated(df, "Region") \/ Duplicated(df, "Quantity")
    \/ HasText(df, "Quantity")
    \/ /\ HasText(df, "Price")
       /\ \/ \E r \in DOMAIN df.rows : isnull(Column(df, "Price")[r])
          \/ ~IntegerColumn(ClampQuantity(Column(drop_duplicates(FillRegion(df)), "Quantity")))

\* the partial branch raises when to_numeric is handed a DataFrame
PartialCleaningRaises(df) ==
    \E c \in {"Quantity", "Price", "Sales"} : Duplicated(df, c)

CleaningRaises(df) ==
    IF has_sales_data(df) THEN FullCleaningRaises(df) ELSE PartialCleaningRaises(df)

\* the table basic_data_cleaning returns when it does not raise
basic_data_cleaning(df) ==
    IF has_sales_data(df) THEN FullCleaning(copy(df).data)
    ELSE PartialCleaning(copy(df).data)

\* the table the caller passed to basic_data_cleaning, after the call
basic_data_cleaning_caller(df) == CallerTable(df, copy(df), basic_data_cleaning(df))

--------------------------------------------------------------------------
(* The files on disk.  A path is [dir, stem, suffix]; Path(p).name is the   *)
(* pair <<stem, suffix>>, Path(name).stem its first component.             *)
(* Cells of Price are numbers or missing in these files.                   *)

Path(dir, stem, suffix) == [dir |-> dir, stem |-> stem, suffix |-> suffix]
Name(file_path) == <<file_path.stem, file_path.suffix>>
Stem(file_name) == file_name[1]

\* a/x.csv: canonical column names; a missing Price and Region, one repeated row, one
\* unparsable date
FileAX ==
    DataFrame(required_cols,
      << <<Num(1), Text("Laptop"), Num(1), Num(10), Text("2023-01-01"), Text("North")>>,
         <<Num(2), Text("Mouse"),  Num(2), NaN,     Text("soon"),       NaN>>,
         <<Num(2), Text("Mouse"),  Num(2), NaN,     Text("soon"),       NaN>>,
         <<Num(3), Text("Laptop"), Num(40), Num(30), Text("2023-01-02"), Text("South")>> >>)

\* b/x.csv: the same file name in another directory; not sales data, shares Region
FileBX == DataFrame(<<"X", "Region">>, << <<Num(1), Text("West")>>, <<Num(3), NaN>> >>)

\* c/x.csv: the same file name again, a header and no rows
FileCX == DataFrame(<<"X", "Region">>, <<>>)

\* d/x.csv: sales data whose Quantity column holds a word
FileDX ==
    DataFrame(required_cols,
      << <<Num(4), Text("Mouse"), Text("many"), Num(10), Text("2023-01-01"), Text("North")>> >>)

\* a/x.xlsx: vendor column names, and a Source_File column left over from an export
FileAXlsx ==
    DataFrame(<<"OrderID", "Item", "Qty", "Cost", "Date", "Country", "Source_File">>,
      << <<Num(7), Text("Tablet"), Num(2), Num(5), Text("2023-01-02"), Text("East"),
           FileCell(<<"old", "csv">>)>> >>)

\* e/y.csv: not sales data; Item and Product are both mapped to Product
FileEY == DataFrame(<<"Item", "Product">>, << <<Text("Pen"), Text("Ink")>> >>)

PathAX == Path("a", "x", "csv")
PathBX == Path("b", "x", "csv")
PathCX == Path("c", "x", "csv")
PathDX == Path("d", "x", "csv")
PathAXlsx == Path("a", "x", "xlsx")
PathEY == Path("e", "y", "csv")

Paths == {PathAX, PathBX, PathCX, PathDX, PathAXlsx}

Content(file_path) ==
    CASE file_path = PathAX -> FileAX
      [] file_path = PathBX -> FileBX
      [] file_path = PathCX -> FileCX
      [] file_path = PathDX -> FileDX
      [] file_path = PathAXlsx -> FileAXlsx
      [] file_path = PathEY -> FileEY

\* load_file raises for a suffix other than .csv / .xlsx
LoadRaises(file_path) == file_path.suffix \notin {"csv", "xlsx"}

--------------------------------------------------------------------------
(* FileSummarizer: the fields of generate_file_summary the writer uses *)

generate_file_summary(df, file_name) ==
    [file_name |-> file_name,
     total_rows |-> Len(df.rows),
     total_columns |-> Len(df.columns),
     is_sales_data |-> has_sales_data(df)]

\* df['Product'].astype(str) on one cell; the Product cells of the model are text
\* or missing
astype_str(c) == CASE c.k = "text" -> c.v

\* rows kept by notna() and by mask1 & mask2 & mask3 (lines 351-367)
df_clean_products(df) ==
    {r \in DOMAIN df.rows :
        /\ ~isnull(Column(df, "Product")[r])
        /\ astype_str(Column(df, "Product")[r]) \notin {"", "nan", "None"}}

\* DataFrame.round(2) on one number: the nearest cent, halves to the even cent;
\* the result is counted in cents
round2(v) ==
    LET n == 100 * v
        q == n \div Unit
        rem == n % Unit
    IN  IF 2 * rem > Unit \/ (2 * rem = Unit /\ q % 2 = 1) THEN q + 1 ELSE q

\* groupby('Product').agg({'Sales': ['sum', 'count']}).round(2): sum and count
\* skip missing Sales
product_stats(df) ==
    LET kept == df_clean_products(df)
        name == [r \in kept |-> astype_str(Column(df, "Product")[r])]
        sales == Column(df, "Sales")
        Of(p) == {r \in kept : name[r] = p /\ IsNum(sales[r])}
        Amount(p) == SumSeq([k \in 1..Len(sales) |->
                                IF k \in Of(p) THEN sales[k].v ELSE 0])
    IN  [p \in {name[r] : r \in kept} |->
            [sum |-> round2(Amount(p)), count |-> Cardinality(Of(p))]]

\* sort_values('总销售额', ascending=False).head(n): the products of the first n
\* rows; the default sort is not stable, so products with equal (rounded) sums
\* may come in either order
head(stats, n) ==
    {K \in SUBSET DOMAIN stats :
        /\ Cardinality(K) = IF Cardinality(DOMAIN stats) < n
                             THEN Cardinality(DOMAIN stats) ELSE n
        /\ \A p \in K : \A q \in DOMAIN stats \ K : stats[p].sum >= stats[q].sum}

\* the values summary['top_products'] can have after lines 347-398; None when the
\* key is not set.  A repeated Product label makes df['Product'] a DataFrame and
\* `if valid_products.sum() > 0` raise, which the except clause swallows
top_products(df) ==
    IF ~has_sales_data(df) \/ ~HasColumn(df, "Sales") \/ Duplicated(df, "Product")
       \/ df_clean_products(df) = {}
    THEN {None}
    ELSE {Some([p \in K |-> product_stats(df)[p]]) : K \in head(product_stats(df), 10)}

\* statements of generate_file_summary outside a try block raise for these tables:
\* float(df['Sales'].sum()) on a repeated Sales label or on strings, and
\* groupby('Region') on a repeated Region label
SummaryRaises(df) ==
    /\ has_sales_data(df)
    /\ \/ Duplicated(df, "Region")
       \/ /\ HasColumn(df, "Sales")
          /\ (Duplicated(df, "Sales") \/ HasText(df, "Sales"))

\* the summary with its per-Product aggregate
FileSummary(df, file_name, top) ==
    generate_file_summary(df, file_name) @@ [top_products |-> top]

--------------------------------------------------------------------------
(* process_single_file *)

\* dict[key] = value on an ordered dict kept as a sequence of entries with a name
\* field: an existing key keeps its position
DictSet(d, name, entry) ==
    IF \E i \in DOMAIN d : d[i].name = name
    THEN [i \in DOMAIN d |-> IF d[i].name = name THEN entry ELSE d[i]]
    ELSE Append(d, entry)

DictHas(d, name) == \E i \in DOMAIN d : d[i].name = name
DictGet(d, name) == d[CHOOSE i \in DOMAIN d : d[i].name = name]

\* the exception process_single_file raises, or "" when it returns
SingleFileError(file_path) ==
    IF LoadRaises(file_path) THEN "load"
    ELSE IF CleaningRaises(standardize_columns(Content(file_path), Name(file_path)))
    THEN "clean"
    ELSE ""

\* the entry process_single_file stores in self.processed_files[file_name]
SingleFileEntry(file_path) ==
    LET df == Content(file_path)
        file_name == Name(file_path)
        df_std == standardize_columns(df, file_name)
        df_clean == basic_data_cleaning(df_std)
    IN  [name |-> file_name,
         original_data |-> df,
         processed_data |-> df_clean,
         summary |-> generate_file_summary(df_clean, file_name),
         file_path |-> file_path]

\* what loading, mapping, cleaning and summarizing each file gives (the files do not
\* change during a session)
FileResults ==
    [file_path \in Paths \cup {PathEY} |->
        [error |-> SingleFileError(file_path), entry |-> SingleFileEntry(file_path)]]

SingleFile(file_path) == FileResults[file_path]

\* variant: a failed attempt removes the entry stored under the file's name
StoreResult_DropOnFailure(files, r) ==
    IF r.error # ""
    THEN [raised |-> TRUE, error |-> r.error,
          files |-> SelectSeq(files, LAMBDA e : e.name # r.entry.name)]
    ELSE [raised |-> FALSE, error |-> "", files |-> DictSet(files, r.entry.name, r.entry)]

\* the end of process_single_file: the entry is stored as the last step; an exception
\* before it leaves self.processed_files as it was
StoreResult(files, r) ==
    IF r.error # ""
    THEN [raised |-> TRUE, error |-> r.error, files |-> files]
    ELSE [raised |-> FALSE, error |-> "", files |-> DictSet(files, r.entry.name, r.entry)]

\* process_single_file: returns (df_clean, summary), or raises
process_single_file(files, file_path) == StoreResult(files, SingleFile(file_path))

--------------------------------------------------------------------------
(* process_multiple_files *)

Outcome(file_path, success, error, data) ==
    [name |-> Name(file_path), success |-> success, error |-> error,
     data |-> data, file_path |-> file_path]

\* results[Path(file_path).name] = {'success': True, ...}
RecordSuccess(acc, file_path, r) ==
    [acc EXCEPT
        !.files = r.files,
        !.completed = acc.completed \cup {file_path},
        !.results = DictSet(acc.results, Name(file_path),
            Outcome(file_path, TRUE, "",
                    Some(DictGet(r.files, Name(file_path)).processed_data)))]

\* results[Path(file_path).name] = {'success': False, 'error': str(e), ...}
RecordFailure(acc, file_path, r) ==
    [acc EXCEPT
        !.results = DictSet(acc.results, Name(file_path),
            Outcome(file_path, FALSE, r.error, None))]

\* variant: the loop body without its try/except, so the exception leaves the loop
TryFile_NoCatch(acc, file_path, r) ==
    IF r.raised THEN [acc EXCEPT !.raised = TRUE] ELSE RecordSuccess(acc, file_path, r)

\* try: ... except Exception as e: ..., given what process_single_file did
TryFile(acc, file_path, r) ==
    IF r.raised THEN RecordFailure(acc, file_path, r) ELSE RecordSuccess(acc, file_path, r)

\* one iteration of the loop.  results is keyed by Path(file_path).name; completed
\* collects the paths process_single_file returned for (history only)
ProcessFileStep(acc, file_path) ==
    TryFile(acc, file_path, process_single_file(acc.files, file_path))

\* for i, file_path in enumerate(file_paths, 1): an exception that leaves the body
\* ends the loop
RECURSIVE ProcessLoop(_, _)
ProcessLoop(acc, file_paths) ==
    IF file_paths = <<>> \/ acc.raised THEN acc
    ELSE ProcessLoop(ProcessFileStep(acc, Head(file_paths)), Tail(file_paths))

process_multiple_files(files, file_paths) ==
    ProcessLoop([results |-> <<>>, files |-> files, raised |-> FALSE, completed |-> {}],
                file_paths)

--------------------------------------------------------------------------
(* SchemaReconciler: combine_all_data *)

\* f"{col}_{counter}" for the labels that can repeat in a cleaned table
Suffixed(c, counter) ==
    CASE c = "Product" /\ counter = 1    -> "Product_1"
      [] c = "Order_Date" /\ counter = 1 -> "Order_Date_1"

RECURSIVE FreshLabel(_, _, _)
FreshLabel(c, counter, seen) ==
    IF Suffixed(c, counter) \in seen THEN FreshLabel(c, counter + 1, seen)
    ELSE Suffixed(c, counter)

\* lines 820-831: a label already seen gets the first free suffix _1, _2, ...
RECURSIVE RepairLabels(_, _, _)
RepairLabels(cols, i, seen) ==
    IF i > Len(cols) THEN cols
    ELSE LET c == IF cols[i] \in seen THEN FreshLabel(cols[i], 1, seen) ELSE cols[i]
         IN  RepairLabels([cols EXCEPT ![i] = c], i + 1, seen \cup {c})

RepairDuplicates(df) ==
    IF ColumnsDuplicated(df) THEN DataFrame(RepairLabels(df.columns, 1, {}), df.rows)
    ELSE df

\* variant: a table needs more than one row to be merged (len(df) > 1)
RECURSIVE combined_data_list_SkipSingle(_)
combined_data_list_SkipSingle(files) ==
    IF files = <<>> THEN <<>>
    ELSE (IF Len(Head(files).processed_data.rows) > 1
          THEN <<[name |-> Head(files).name,
                  df |-> RepairDuplicates(Head(files).processed_data)]>>
          ELSE <<>>) \o combined_data_list_SkipSingle(Tail(files))

\* lines 796-836: the tables to merge, each with the name it is stored under; tables
\* without rows are skipped
RECURSIVE combined_data_list(_)
combined_data_list(files) ==
    IF files = <<>> THEN <<>>
    ELSE (IF Len(Head(files).processed_data.rows) > 0
          THEN <<[name |-> Head(files).name,
                  df |-> RepairDuplicates(Head(files).processed_data)]>>
          ELSE <<>>) \o combined_data_list(Tail(files))

\* variant: the labels are repaired in the stored table itself
StoredAfterMerge_InPlace(files) ==
    [i \in DOMAIN files |->
        IF Len(files[i].processed_data.rows) > 0
        THEN [files[i] EXCEPT !.processed_data = RepairDuplicates(@)]
        ELSE files[i]]

\* self.processed_files after combine_all_data: the merge works on df.copy() of
\* each stored table with rows (line 811), and assigns the repaired labels to the copy
StoredAfterMerge(files) ==
    [i \in DOMAIN files |->
        IF Len(files[i].processed_data.rows) > 0
        THEN [files[i] EXCEPT !.processed_data = CallerTable(@, copy(@), RepairDuplicates(@))]
        ELSE files[i]]

\* df.reindex(columns=cols): a column the table lacks is filled with NaN
Reindex(df, cols) ==
    DataFrame(cols,
              [r \in DOMAIN df.rows |->
                  [i \in DOMAIN cols |->
                      IF HasColumn(df, cols[i]) THEN df.rows[r][ColPos(df, cols[i])]
                      ELSE NaN]])

\* df_std[col] = np.nan for every column of all_columns the table lacks
RECURSIVE AddMissing(_, _)
AddMissing(df, missing_cols) ==
    IF missing_cols = <<>> THEN df
    ELSE AddMissing(SetColumnScalar(df, Head(missing_cols), NaN), Tail(missing_cols))

\* pd.concat(dfs, ignore_index=True): the first table's columns followed by the
\* labels only later tables have; rows are aligned by label, in table then row order
RECURSIVE ConcatRows(_, _)
ConcatRows(dfs, cols) ==
    IF dfs = <<>> THEN <<>>
    ELSE Reindex(Head(dfs), cols).rows \o ConcatRows(Tail(dfs), cols)

RECURSIVE ConcatColumns(_, _)
ConcatColumns(dfs, cols) ==
    IF dfs = <<>> THEN cols
    ELSE ConcatColumns(Tail(dfs),
           cols \o SelectSeq(Head(dfs).columns, LAMBDA c : c \notin Range(cols)))

concat(dfs) == DataFrame(ConcatColumns(dfs, <<>>), ConcatRows(dfs, ConcatColumns(dfs, <<>>)))

AllColumns(list) == UNION {Range(list[i].df.columns) : i \in DOMAIN list}

\* variant: columns a table lacks are not added and the union is not imposed, each
\* table keeps its own columns before the concatenation
Standardized_NoReorder(df, all_columns) == df

\* lines 851-862: one table brought to the sorted union of all columns
Standardized(df, all_columns) ==
    Reindex(AddMissing(df, SortedCols(all_columns \ Range(df.columns))),
            SortedCols(all_columns))

\* lines 842-865, tier 1
FullUnion(list) ==
    concat([i \in DOMAIN list |-> Standardized(list[i].df, AllColumns(list))])

\* tuple(sorted(df.columns))
Signature(df) == SortedCols(Range(df.columns))

\* the keys of grouped_by_columns, in insertion order
RECURSIVE Signatures(_, _)
Signatures(list, seen) ==
    IF list = <<>> THEN <<>>
    ELSE IF Signature(Head(list).df) \in seen THEN Signatures(Tail(list), seen)
    ELSE <<Signature(Head(list).df)>>
         \o Signatures(Tail(list), seen \cup {Signature(Head(list).df)})

GroupOf(list, sig) == SelectSeq(list, LAMBDA e : Signature(e.df) = sig)

\* lines 883-891: merged_groups
MergedGroups(list) ==
    LET sigs == Signatures(list, {})
    IN  [g \in DOMAIN sigs |->
            LET df_group == GroupOf(list, sigs[g])
            IN  IF Len(df_group) > 1
                THEN concat([i \in DOMAIN df_group |-> df_group[i].df])
                ELSE df_group[1].df]

\* variant: the branch for no common column is also taken when there are common
\* columns, keeping the union of the columns
FoldStep_Union(acc, df) ==
    LET all_cols == SortedCols(Range(acc.columns) \cup Range(df.columns))
    IN  concat(<<Reindex(acc, all_cols), Reindex(df, all_cols)>>)

\* lines 899-929: one step of the fold over merged_groups[1:]
FoldStep(acc, df) ==
    LET common_cols == SortedCols(Range(acc.columns) \cap Range(df.columns))
        all_cols == SortedCols(Range(acc.columns) \cup Range(df.columns))
    IN  IF common_cols # <<>>
        THEN concat(<<Reindex(acc, common_cols), Reindex(df, common_cols)>>)
        ELSE concat(<<Reindex(acc, all_cols), Reindex(df, all_cols)>>)

\* self.combined_data after the first steps fold steps
RECURSIVE Fold(_, _)
Fold(groups, steps) ==
    IF steps = 0 THEN groups[1]
    ELSE FoldStep(Fold(groups, steps - 1), groups[steps + 1])

\* the orders list(set(...)) can give the columns of a fold result
Orders(S) ==
    {o \in [1..Cardinality(S) -> S] : \A i, j \in 1..Cardinality(S) : o[i] = o[j] => i = j}

\* What can go wrong inside pandas during a merge (an exception such as MemoryError):
\*   "none"   nothing
\*   "union"  tier 1 raises before line 865 assigns; the fallback completes
\*   "group"  tier 1 raises, and the fallback raises before it assigns (lines 875-891)
\*   "fold"   tier 1 raises, and the fallback raises in the fold after k steps
Faults(list) ==
    {[kind |-> "none", k |-> 0], [kind |-> "union", k |-> 0], [kind |-> "group", k |-> 0]}
    \cup {[kind |-> "fold", k |-> k] : k \in 0..(Len(Signatures(list, {})) - 2)}

\* the fallback's self.combined_data after steps fold steps; a fold step lists its
\* columns in the order of a Python set, given here by order
Fallback(list, steps, order) ==
    IF steps = 0 THEN MergedGroups(list)[1]
    ELSE Reindex(Fold(MergedGroups(list), steps), order)

FallbackColumns(list, steps) ==
    IF steps = 0 THEN {} ELSE Range(Fold(MergedGroups(list), steps).columns)

\* variant: the last except clause does not return, so line 939 returns
\* self.combined_data as the failed fallback left it
combine_all_data_NoReturn(files, old, fault, order) ==
    LET list == combined_data_list(files)
        last == Len(Signatures(list, {})) - 1
        out(data) == [combined_data |-> data, ret |-> data]
    IN  IF files = <<>> \/ list = <<>> THEN [combined_data |-> old, ret |-> None]
        ELSE CASE fault.kind = "none"  -> out(Some(FullUnion(list)))
               [] fault.kind = "union" -> out(Some(Fallback(list, last, order)))
               [] fault.kind = "group" -> out(old)
               [] fault.kind = "fold"  -> out(Some(Fallback(list, fault.k, order)))

\* combine_all_data: the new self.combined_data and the value returned
combine_all_data(files, old, fault, order) ==
    LET list == combined_data_list(files)
        last == Len(Signatures(list, {})) - 1
        out(data) == [combined_data |-> data, ret |-> data]
    IN  IF files = <<>> \/ list = <<>> THEN [combined_data |-> old, ret |-> None]
        ELSE CASE fault.kind = "none"  -> out(Some(FullUnion(list)))
               [] fault.kind = "union" -> out(Some(Fallback(list, last, order)))
               [] fault.kind = "group" -> [combined_data |-> old, ret |-> None]
               [] fault.kind = "fold"  ->
                    [combined_data |-> Some(Fallback(list, fault.k, order)), ret |-> None]

\* the steps a merge with this fault completes in the fold, which fix the columns
\* whose order is open
OrderedSteps(list, fault) ==
    CASE fault.kind = "union" -> Len(Signatures(list, {})) - 1
      [] fault.kind = "fold"  -> fault.k
      [] OTHER -> 0

--------------------------------------------------------------------------
(* ResultWriter: save_results *)

\* an output file name; ts is <<timestamp>>, or <<>> for a name without one
OutFile(kind, stem, ts) == [kind |-> kind, stem |-> stem, ts |-> ts]

\* open(file, 'w') / to_csv(file): creates the file or replaces its content
WriteFile(dir, file, content) ==
    [f \in DOMAIN dir \cup {file} |-> IF f = file THEN content ELSE dir[f]]

\* lines 955-979: one cleaned table per stored entry with rows
RECURSIVE SaveSeparate(_, _, _)
SaveSeparate(acc, files, ts) ==
    IF files = <<>> THEN acc
    ELSE LET e == Head(files)
             file == OutFile("processed", Stem(e.name), <<ts>>)
         IN  IF Len(e.processed_data.rows) > 0
             THEN SaveSeparate([dir |-> WriteFile(acc.dir, file, e.processed_data),
                                saved_files |-> Append(acc.saved_files, file)],
                               Tail(files), ts)
             ELSE SaveSeparate(acc, Tail(files), ts)

\* lines 981-989
SaveCombined(acc, combined, ts) ==
    IF combined # None
    THEN LET file == OutFile("combined_data", "", <<ts>>)
         IN  [dir |-> WriteFile(acc.dir, file, combined[1]),
              saved_files |-> Append(acc.saved_files, file)]
    ELSE acc

\* lines 991-1015
SaveSummary(acc, files, ts) ==
    IF files # <<>>
    THEN LET file == OutFile("processing_summary", "", <<ts>>)
         IN  [dir |-> WriteFile(acc.dir, file,
                                DataFrame(<<"summary">>, [i \in DOMAIN files |-> files[i].summary])),
              saved_files |-> Append(acc.saved_files, file)]
    ELSE acc

\* lines 1017-1033 and generate_analysis_report, lines 740-746
SaveReport(acc, files) ==
    IF \E i \in DOMAIN files : files[i].summary.is_sales_data
    THEN LET file == OutFile("sales_analysis_report", "", <<>>)
         IN  [dir |-> WriteFile(acc.dir, file, DataFrame(<<"report">>, <<>>)),
              saved_files |-> Append(acc.saved_files, file)]
    ELSE acc

save_results(dir, files, combined, ts, separate_files, combined_file) ==
    LET a0 == [dir |-> dir, saved_files |-> <<>>]
        a1 == IF separate_files /\ files # <<>> THEN SaveSeparate(a0, files, ts) ELSE a0
        a2 == IF combined_file THEN SaveCombined(a1, combined, ts) ELSE a1
        a3 == SaveSummary(a2, files, ts)
    IN  SaveReport(a3, files)

--------------------------------------------------------------------------
(* The session: one MultiFileProcessor, driven call by call *)

NoFault == [kind |-> "none", k |-> 0]

Call(op, file_paths, fault, separate_files, combined_file) ==
    [op |-> op, file_paths |-> file_paths, fault |-> fault,
     separate_files |-> separate_files, combined_file |-> combined_file]

Ret(raised, error, outcomes, data, saved_files) ==
    [raised |-> raised, error |-> error, results |-> outcomes, data |-> data,
     saved_files |-> saved_files]

EmptyFrame == DataFrame(<<>>, <<>>)

IdleSession ==
    /\ processed_files = <<>>
    /\ combined_data = None
    /\ ret = Ret(FALSE, "", <<>>, None, <<>>)
    /\ call = Call("init", <<>>, NoFault, FALSE, FALSE)
    /\ written = <<>>
    /\ clock = 0
    /\ succeeded = {}

IdleClamp == col = <<>> /\ prev = <<>> /\ applied = 0 /\ orig = <<>>
IdleClean == df_in = EmptyFrame /\ df_out = None

NoLocals == [df |-> None, df_std |-> None, df_clean |-> None, summary |-> None, error |-> ""]

IdleLoop ==
    /\ pc = "idle" /\ loop_i = 0 /\ results = <<>> /\ local = NoLocals
    /\ progress_callback = FALSE /\ history = <<>>

IdleScan ==
    /\ disk = {}
    /\ directory = [exists |-> FALSE, absolute |-> FALSE, case_sensitive |-> TRUE]
    /\ scanned = None

\* __init__
IdleFallback == tables = <<>> /\ fallback = None

Init == IdleSession /\ IdleClamp /\ IdleClean /\ IdleLoop /\ IdleScan /\ IdleFallback

BatchLists == UNION {[1..n -> Paths] : n \in 0..MaxBatch}

\* process_single_file(file_path), called directly
ProcessOne(file_path) ==
    \E r \in {process_single_file(processed_files, file_path)} :
        /\ processed_files' = r.files
        /\ ret' = Ret(r.raised, r.error, <<>>,
                      IF r.raised THEN None
                      ELSE Some(DictGet(r.files, Name(file_path)).processed_data),
                      <<>>)
        /\ call' = Call("process_single_file", <<file_path>>, NoFault, FALSE, FALSE)
        /\ succeeded' = IF r.raised THEN succeeded ELSE succeeded \cup {file_path}
        /\ UNCHANGED <<combined_data, written, clock>>

\* process_multiple_files(file_paths)
ProcessMany(file_paths) ==
    \E r \in {process_multiple_files(processed_files, file_paths)} :
        /\ processed_files' = r.files
        /\ ret' = Ret(r.raised, "", r.results, None, <<>>)
        /\ call' = Call("process_multiple_files", file_paths, NoFault, FALSE, FALSE)
        /\ succeeded' = succeeded \cup r.completed
        /\ UNCHANGED <<combined_data, written, clock>>

\* combine_all_data()
Merge(fault) ==
    LET list == combined_data_list(processed_files)
    IN  /\ fault \in Faults(list)
        /\ list = <<>> => fault = NoFault
        /\ \E order \in Orders(FallbackColumns(list, OrderedSteps(list, fault))) :
             LET r == combine_all_data(processed_files, combined_data, fault, order)
             IN  /\ combined_data' = r.combined_data
                 /\ ret' = Ret(FALSE, "", <<>>, r.ret, <<>>)
        /\ call' = Call("combine_all_data", <<>>, fault, FALSE, FALSE)
        /\ processed_files' = StoredAfterMerge(processed_files)
        /\ UNCHANGED <<written, clock, succeeded>>

\* save_results(output_dir, separate_files, combined_file)
Save(separate_files, combined_file) ==
    LET r == save_results(written, processed_files, combined_data, clock,
                          separate_files, combined_file)
    IN  /\ written' = r.dir
        /\ ret' = Ret(FALSE, "", <<>>, None, r.saved_files)
        /\ call' = Call("save_results", <<>>, NoFault, separate_files, combined_file)
        /\ UNCHANGED <<processed_files, combined_data, clock, succeeded>>

\* time passes between calls
Tick ==
    /\ clock < MaxClock
    /\ clock' = clock + 1
    /\ UNCHANGED <<processed_files, combined_data, ret, call, written, succeeded>>

FaultKinds ==
    {[kind |-> kd, k |-> k] : kd \in {"none", "union", "group", "fold"}, k \in 0..Cardinality(Paths)}

Processing ==
    \/ \E file_path \in Paths : ProcessOne(file_path)
    \/ \E file_paths \in BatchLists : ProcessMany(file_paths)

Merging == \E fault \in FaultKinds : Merge(fault)

Saving ==
    \/ \E s, c \in BOOLEAN : Save(s, c)
    \/ Tick

\* a session of any calls
Next == UNCHANGED <<clampVars, cleanVars, loopVars, scanVars, fallbackVars>> /\ (Processing \/ Merging \/ Saving)

Spec == Init /\ [][Next]_vars

\* a session that only processes files
NextBatch == UNCHANGED <<clampVars, cleanVars, loopVars, scanVars, fallbackVars>> /\ Processing

SpecBatch == Init /\ [][NextBatch]_vars

\* a session that processes files one at a time and merges
NextMerge ==
    /\ UNCHANGED <<clampVars, cleanVars, loopVars, scanVars, fallbackVars>>
    /\ \/ \E file_path \in Paths : ProcessOne(file_path)
       \/ Merging

SpecMerge == Init /\ [][NextMerge]_vars

\* a session over b/x.csv, a/x.xlsx and e/y.csv, three tables of different columns
\* one of which has a repeated label, that processes and merges
NextRemerge ==
    /\ UNCHANGED <<clampVars, cleanVars, loopVars, scanVars, fallbackVars>>
    /\ \/ \E file_path \in {PathBX, PathAXlsx, PathEY} : ProcessOne(file_path)
       \/ Merging

SpecRemerge == Init /\ [][NextRemerge]_vars

\* a session that processes files, one at a time or as a list, and merges
NextSession ==
    /\ UNCHANGED <<clampVars, cleanVars, loopVars, scanVars, fallbackVars>>
    /\ (Processing \/ Merging)

SpecSession == Init /\ [][NextSession]_vars

\* a session over a/x.csv, b/x.csv and a/x.xlsx that processes, merges and saves
\* while time passes
NextSave ==
    /\ UNCHANGED <<clampVars, cleanVars, loopVars, scanVars, fallbackVars>>
    /\ \/ \E file_path \in {PathAX, PathBX, PathAXlsx} : ProcessOne(file_path)
       \/ Merge(NoFault)
       \/ Saving

SpecSave == Init /\ [][NextSave]_vars

--------------------------------------------------------------------------
(* process_multiple_files step by step: the loop of lines 755-780, its calls of
   progress_callback, and the steps of the process_single_file call inside it.
   progress_callback is taken to return without raising. *)

\* an entry of history: step kind of iteration k; current is the first argument of a
\* progress_callback call (0 for other steps)
Event(kind, k, current) == [kind |-> kind, k |-> k, current |-> current]

total_files == Len(call.file_paths)

\* variant: the callback is given the number of the file about to be processed
HookIndex_Started(k) == k

\* progress_callback(i-1, total_files, ...), line 758
HookIndex(k) == k - 1

\* variant: the entry is stored before the summary is made
NextStep_StoreBeforeSummary(step) ==
    CASE step = "load" -> "map"
      [] step = "map" -> "clean"
      [] step = "clean" -> "store"
      [] step = "store" -> "summarize"
      [] step = "summarize" -> "record"

\* the order of the statements of process_single_file (lines 247, 251, 263, 283,
\* 289) and the statement that follows its return (line 765)
NextStep(step) ==
    CASE step = "load" -> "map"
      [] step = "map" -> "clean"
      [] step = "clean" -> "summarize"
      [] step = "summarize" -> "store"
      [] step = "store" -> "record"

\* the end of an iteration: the next file, or the statement after the loop
AfterFile(k) == IF k < total_files THEN "hook" ELSE "final_hook"

\* process_multiple_files(file_paths, progress_callback) is called
LoopBegin(file_paths, cb) ==
    /\ pc = "idle"
    /\ call' = Call("process_multiple_files", file_paths, NoFault, FALSE, FALSE)
    /\ progress_callback' = cb
    /\ results' = <<>>
    /\ loop_i' = 1
    /\ pc' = IF file_paths = <<>> THEN "final_hook" ELSE "hook"
    /\ UNCHANGED <<processed_files, combined_data, ret, written, clock, succeeded,
                   local, history>>

\* lines 757-758: if progress_callback: progress_callback(i-1, total_files, ...)
CallHook ==
    /\ pc = "hook"
    /\ history' = IF progress_callback
                  THEN Append(history, Event("hook", loop_i, HookIndex(loop_i)))
                  ELSE history
    /\ local' = NoLocals
    /\ pc' = "load"
    /\ UNCHANGED <<sessionVars, loop_i, results, progress_callback>>

\* df = self.load_file(file_path)
LoadStep ==
    /\ pc = "load"
    /\ IF LoadRaises(call.file_paths[loop_i])
       THEN /\ local' = [local EXCEPT !.error = "load"]
            /\ pc' = "except"
            /\ UNCHANGED history
       ELSE /\ local' = [local EXCEPT !.df = Some(Content(call.file_paths[loop_i]))]
            /\ pc' = NextStep("load")
            /\ history' = Append(history, Event("load", loop_i, 0))
    /\ UNCHANGED <<sessionVars, loop_i, results, progress_callback>>

\* df_std, column_mapping = self.standardize_columns(df, file_name)
MapStep ==
    /\ pc = "map"
    /\ local' = [local EXCEPT
                   !.df_std = Some(standardize_columns(local.df[1],
                                                       Name(call.file_paths[loop_i])))]
    /\ pc' = NextStep("map")
    /\ history' = Append(history, Event("map", loop_i, 0))
    /\ UNCHANGED <<sessionVars, loop_i, results, progress_callback>>

\* df_clean = self.basic_data_cleaning(df_std)
CleanStep ==
    /\ pc = "clean"
    /\ IF CleaningRaises(local.df_std[1])
       THEN /\ local' = [local EXCEPT !.error = "clean"]
            /\ pc' = "except"
            /\ UNCHANGED history
       ELSE /\ local' = [local EXCEPT !.df_clean = Some(basic_data_cleaning(local.df_std[1]))]
            /\ pc' = NextStep("clean")
            /\ history' = Append(history, Event("clean", loop_i, 0))
    /\ UNCHANGED <<sessionVars, loop_i, results, progress_callback>>

\* summary = self.generate_file_summary(df_clean, file_name)
SummarizeStep ==
    /\ pc = "summarize"
    /\ local' = [local EXCEPT
                   !.summary = Some(generate_file_summary(local.df_clean[1],
                                                          Name(call.file_paths[loop_i])))]
    /\ pc' = NextStep("summarize")
    /\ history' = Append(history, Event("summarize", loop_i, 0))
    /\ UNCHANGED <<sessionVars, loop_i, results, progress_callback>>

\* self.processed_files[file_name] = {...}: reading a local that is not bound yet
\* raises
StoreStep ==
    /\ pc = "store"
    /\ IF local.summary = None
       THEN /\ local' = [local EXCEPT !.error = "unbound"]
            /\ pc' = "except"
            /\ UNCHANGED <<processed_files, history>>
       ELSE /\ processed_files' =
                 DictSet(processed_files, Name(call.file_paths[loop_i]),
                         [name |-> Name(call.file_paths[loop_i]),
                          original_data |-> local.df[1],
                          processed_data |-> local.df_clean[1],
                          summary |-> local.summary[1],
                          file_path |-> call.file_paths[loop_i]])
            /\ pc' = NextStep("store")
            /\ history' = Append(history, Event("store", loop_i, 0))
            /\ UNCHANGED local
    /\ UNCHANGED <<combined_data, ret, call, written, clock, succeeded,
                   loop_i, results, progress_callback>>

\* results[Path(file_path).name] = {'success': True, ...}, then the next iteration
RecordStep ==
    /\ pc = "record"
    /\ results' = DictSet(results, Name(call.file_paths[loop_i]),
                          Outcome(call.file_paths[loop_i], TRUE, "", local.df_clean))
    /\ history' = Append(history, Event("record", loop_i, 0))
    /\ pc' = AfterFile(loop_i)
    /\ loop_i' = loop_i + 1
    /\ UNCHANGED <<sessionVars, local, progress_callback>>

\* except Exception as e: results[Path(file_path).name] = {'success': False, ...}
ExceptStep ==
    /\ pc = "except"
    /\ results' = DictSet(results, Name(call.file_paths[loop_i]),
                          Outcome(call.file_paths[loop_i], FALSE, local.error, None))
    /\ history' = Append(history, Event("except", loop_i, 0))
    /\ pc' = AfterFile(loop_i)
    /\ loop_i' = loop_i + 1
    /\ UNCHANGED <<sessionVars, local, progress_callback>>

\* lines 782-783: if progress_callback: progress_callback(total_files, total_files, ...)
FinalHook ==
    /\ pc = "final_hook"
    /\ history' = IF progress_callback
                  THEN Append(history, Event("hook", loop_i, total_files))
                  ELSE history
    /\ pc' = "return"
    /\ UNCHANGED <<sessionVars, loop_i, results, local, progress_callback>>

\* return results
LoopReturn ==
    /\ pc = "return"
    /\ ret' = Ret(FALSE, "", results, None, <<>>)
    /\ pc' = "done"
    /\ UNCHANGED <<processed_files, combined_data, call, written, clock, succeeded,
                   loop_i, results, local, progress_callback, history>>

NextLoop ==
    /\ UNCHANGED <<clampVars, cleanVars, scanVars, fallbackVars>>
    /\ \/ \E file_paths \in BatchLists, cb \in BOOLEAN : LoopBegin(file_paths, cb)
       \/ CallHook
       \/ LoadStep \/ MapStep \/ CleanStep \/ SummarizeStep \/ StoreStep
       \/ RecordStep \/ ExceptStep
       \/ FinalHook
       \/ LoopReturn

SpecLoop == Init /\ [][NextLoop]_vars

--------------------------------------------------------------------------
(* The fallback tier on its own (lines 873-929), for any list of tables with unique
   labels, with and without a column in common *)

\* the column sets of the tables
ColumnSets == {{"X"}, {"Region"}, {"Price", "Region"}, {"Region", "X"}}

\* the t-th table of a list: the first has two rows, the others one; every cell
\* tells its table, row and column
TableAt(t, S) ==
    DataFrame(SortedCols(S),
              [r \in 1..(IF t = 1 THEN 2 ELSE 1) |->
                  [n \in 1..Cardinality(S) |->
                      Num(1000 * t + 100 * r
                          + CHOOSE m \in DOMAIN SortedLabels :
                               SortedLabels[m] = SortedCols(S)[n])]])

InitFallback ==
    /\ IdleSession /\ IdleClamp /\ IdleClean /\ IdleLoop /\ IdleScan
    /\ tables \in {[t \in DOMAIN f |-> [name |-> t, df |-> TableAt(t, f[t])]] :
                      f \in UNION {[1..n -> ColumnSets] : n \in 1..MaxTables}}
    /\ fallback = None

\* the except branch of combine_all_data, run to its end
FallbackMerge ==
    /\ fallback = None
    /\ \E order \in Orders(FallbackColumns(tables, Len(Signatures(tables, {})) - 1)) :
          fallback' = Some(Fallback(tables, Len(Signatures(tables, {})) - 1, order))
    /\ UNCHANGED <<tables, sessionVars, clampVars, cleanVars, loopVars, scanVars>>

NextFallback == FallbackMerge

SpecFallback == InitFallback /\ [][NextFallback]_vars

--------------------------------------------------------------------------
(* FileScanner: scan_directory.  An entry of the disk is a file or a directory under
   the scanned directory, named by the sub-directory it is in, its stem and its
   suffix.  A path string str(f) is [absolute, rel]: rel is the part below the
   scanned directory, and the string is absolute exactly when the directory was
   given as an absolute path (Path(directory_path) is not resolved). *)

DiskEntry(dir, stem, suffix, is_dir) ==
    [dir |-> dir, stem |-> stem, suffix |-> suffix, is_dir |-> is_dir]

\* what may be under the directory; d.csv is a directory
DiskUniverse ==
    {DiskEntry("", "a", "csv", FALSE), DiskEntry("", "B", "CSV", FALSE),
     DiskEntry("", "b", "xlsx", FALSE), DiskEntry("", "c", "txt", FALSE),
     DiskEntry("", "d", "csv", TRUE),
     DiskEntry("sub", "a", "csv", FALSE), DiskEntry("sub", "b", "xlsx", FALSE)}

\* the relative path strings, in the order of Python's string comparison
SortedNames ==
    << <<"", "B", "CSV">>, <<"", "a", "csv">>, <<"", "b", "xlsx">>, <<"", "c", "txt">>,
       <<"", "d", "csv">>, <<"sub", "a", "csv">>, <<"sub", "b", "xlsx">> >>

StrRank(rel) == CHOOSE n \in DOMAIN SortedNames : SortedNames[n] = rel

LowerSuffix(suffix) == IF suffix = "CSV" THEN "csv" ELSE suffix

\* str(f) for an entry found under the directory
PathStr(dir, e) == [absolute |-> dir.absolute, rel |-> <<e.dir, e.stem, e.suffix>>]

\* list(directory.rglob("*." + suffix)): files and directories whose name matches,
\* at any depth; the match ignores case only where the platform does.  The list is
\* in an order the platform chooses; every use of it is sorted.
RECURSIVE ListOf(_)
ListOf(S) ==
    IF S = {} THEN <<>>
    ELSE LET e == CHOOSE x \in S : TRUE IN <<e>> \o ListOf(S \ {e})

rglob(dsk, dir, suffix) ==
    ListOf({e \in dsk :
              IF dir.case_sensitive THEN e.suffix = suffix
              ELSE LowerSuffix(e.suffix) = suffix})

\* sorted(strs): ascending, equal strings kept
RECURSIVE sorted(_)
sorted(strs) ==
    IF strs = <<>> THEN <<>>
    ELSE LET least == CHOOSE j \in DOMAIN strs :
                         \A m \in DOMAIN strs :
                            \/ StrRank(strs[j].rel) < StrRank(strs[m].rel)
                            \/ StrRank(strs[j].rel) = StrRank(strs[m].rel) /\ j <= m
         IN  <<strs[least]>> \o sorted(Pick(strs, DOMAIN strs \ {least}, 1))

\* scan_directory(directory_path): raises, or returns the sorted path strings
scan_directory(dsk, dir) ==
    IF ~dir.exists
    THEN [raised |-> TRUE, error |-> "FileNotFoundError", files |-> <<>>]
    ELSE LET csv_files == rglob(dsk, dir, "csv")
             xlsx_files == rglob(dsk, dir, "xlsx")
             all_files == csv_files \o xlsx_files
         IN  [raised |-> FALSE, error |-> "",
              files |-> sorted([j \in DOMAIN all_files |-> PathStr(dir, all_files[j])])]

InitScan ==
    /\ IdleSession /\ IdleClamp /\ IdleClean /\ IdleLoop /\ IdleFallback
    /\ directory \in [exists : BOOLEAN, absolute : BOOLEAN, case_sensitive : BOOLEAN]
    /\ disk \in SUBSET DiskUniverse
    /\ ~directory.exists => disk = {}
    /\ scanned = None

\* scan_directory(directory_path): stat calls only, nothing is written
Scan ==
    /\ scanned = None
    /\ scanned' = Some(scan_directory(disk, directory))
    /\ UNCHANGED <<disk, directory, sessionVars, clampVars, cleanVars, loopVars,
                   fallbackVars>>

NextScan == Scan

SpecScan == InitScan /\ [][NextScan]_vars

--------------------------------------------------------------------------
(* The outlier clamp on its own: a Quantity column, clamped again and again *)

QuantityCells == {NaN} \cup {Num(q) : q \in 0..MaxQty}

InitClamp ==
    /\ IdleSession /\ IdleClean /\ IdleLoop /\ IdleScan /\ IdleFallback
    /\ col \in UNION {[1..n -> QuantityCells] : n \in 1..MaxLen}
    /\ prev = col
    /\ orig = col
    /\ applied = 0

\* step 5 of basic_data_cleaning (handle_outliers in data_utils.py) applied to col
ApplyClamp ==
    /\ applied < MaxApply
    /\ col' = ClampQuantity(col)
    /\ prev' = col
    /\ applied' = applied + 1
    /\ UNCHANGED <<orig, sessionVars, cleanVars, loopVars, scanVars, fallbackVars>>

NextClamp == ApplyClamp

SpecClamp == InitClamp /\ [][NextClamp]_vars

--------------------------------------------------------------------------
(* The cleaner on its own: a mapped sales table handed to basic_data_cleaning *)

\* the rows the tables are drawn from: they differ in Quantity, Price and Region
RowPool ==
    {<<Num(1), Text("Laptop"), q, p, Text("2023-01-01"), r, FileCell(<<"x", "csv">>)>> :
        q \in {Num(1), Num(9)},
        p \in {NaN, Num(10), Num(20)},
        r \in {NaN, Text("Unknown")}}

\* order r of a table whose rows are told apart by Order_ID
OrderRow(r, q, p) ==
    <<Num(r), Text("Laptop"), q, p, Text("2023-01-01"), Text("West"),
      FileCell(<<"x", "csv">>)>>

\* tables of distinct orders with whole or missing Quantity and Price: long enough
\* for the clamp to act
OrderTables ==
    UNION {{[r \in 1..n |-> OrderRow(r, f[r][1], f[r][2])] :
               f \in [1..n -> {NaN, Num(1), Num(9)} \X {NaN, Num(10)}]} : n \in 1..MaxOrders}

\* tables of distinct orders whose Price column holds strings (a CSV column with an
\* unparsable cell is read as strings throughout; an XLSX column keeps its numbers)
TextTables ==
    UNION {{[r \in 1..n |-> OrderRow(r, f[r][1], f[r][2])] :
               f \in [1..n -> {Num(1), Num(2)} \X {Num(10), Text("10"), Text("n/a")}]} :
           n \in 1..MaxRows}

\* five orders with Quantity 1, 2, 3, 4, 100
ScenarioB ==
    [r \in 1..5 |-> OrderRow(r, Num(<<1, 2, 3, 4, 100>>[r]), Num(10))]

\* tables of MaxOrders distinct orders followed by a copy of one of them: the
\* quartiles of all rows differ from those of the distinct rows
RepeatedTables ==
    {Append(t, t[k]) :
        t \in {[r \in 1..MaxOrders |-> OrderRow(r, q[r], Num(10))] :
                  q \in [1..MaxOrders -> {Num(1), Num(9)}]},
        k \in 1..MaxOrders}

\* tables whose rows are one order written with different Order_Date texts, two of
\* which are not dates
DateTables ==
    UNION {[1..n -> {<<Num(1), Text("Laptop"), Num(1), Num(10), Text(d), Text("West"),
                       FileCell(<<"x", "csv">>)>> : d \in {"2023-01-01", "soon", "later"}}] :
           n \in 2..MaxRows}

\* orders with Quantity 1..7 and an order entered twice, with Quantity 100 and 200
ScenarioTwins ==
    [r \in 1..9 |-> OrderRow(IF r = 9 THEN 8 ELSE r,
                             Num(<<1, 2, 3, 4, 5, 6, 7, 100, 200>>[r]), Num(10))]

\* the mapped sales tables handed to the cleaner
CleanInputs ==
    {DataFrame(Append(required_cols, "Source_File"), rows) :
        rows \in UNION {[1..n -> RowPool] : n \in 0..MaxRows}
                  \cup OrderTables \cup TextTables \cup RepeatedTables \cup {ScenarioB}
                  \cup DateTables \cup {ScenarioTwins}}

InitClean ==
    /\ IdleSession /\ IdleClamp /\ IdleLoop /\ IdleScan /\ IdleFallback
    /\ df_in \in CleanInputs
    /\ df_out = None

\* df_clean = basic_data_cleaning(df_std)
Clean ==
    /\ df_out = None
    /\ ~CleaningRaises(df_in)
    /\ df_out' = Some(basic_data_cleaning(df_in))
    /\ df_in' = basic_data_cleaning_caller(df_in)
    /\ UNCHANGED <<sessionVars, clampVars, loopVars, scanVars, fallbackVars>>

NextClean == Clean

SpecClean == InitClean /\ [][NextClean]_vars

--------------------------------------------------------------------------
(* The mapper and the cleaner as their caller sees them: df_in is the caller's table,
   df_out what the call returned *)

\* the file name the mapper is given
MapFileName == <<"x", "csv">>

\* a table in which price and Cost are both synonyms of Price
CollidingTable ==
    DataFrame(<<"OrderID", "Item", "Qty", "price", "Cost", "Date", "Country">>,
      << <<Num(8), Text("Mouse"), Num(1), Num(10), Num(7), Text("2023-01-01"),
           Text("East")>> >>)

\* mapped tables without a Product column, which the cleaner takes in partial mode:
\* with missing and unparsable cells, repeated rows and Quantity outliers
PartialTables ==
    {DataFrame(<<"Order_ID", "Quantity", "Price", "Order_Date", "Region", "Source_File">>,
               [r \in DOMAIN rows |->
                   <<rows[r][1], rows[r][3], rows[r][4],
                     IF rows[r][3] = Num(1) THEN Text("soon") ELSE rows[r][5],
                     IF isnull(rows[r][4]) THEN NaN ELSE rows[r][6], rows[r][7]>>]) :
        rows \in OrderTables \cup TextTables \cup RepeatedTables}

InitFrame ==
    /\ IdleSession /\ IdleClamp /\ IdleLoop /\ IdleScan /\ IdleFallback
    /\ df_in \in CleanInputs \cup {Content(p) : p \in Paths} \cup {CollidingTable}
                \cup PartialTables
    /\ df_out = None

\* df_std, column_mapping = standardize_columns(df, file_name)
Map ==
    /\ df_out = None
    /\ df_out' = Some(standardize_columns(df_in, MapFileName))
    /\ df_in' = standardize_columns_caller(df_in, MapFileName)
    /\ call' = Call("standardize_columns", <<>>, NoFault, FALSE, FALSE)
    /\ UNCHANGED <<processed_files, combined_data, ret, written, clock, succeeded,
                   clampVars, loopVars, scanVars, fallbackVars>>

NextFrame == Clean \/ Map

SpecFrame == InitFrame /\ [][NextFrame]_vars

--------------------------------------------------------------------------
(* The cleaner followed by the summarizer, as in process_single_file: df_out is
   df_clean, ret.data the summary *)

ProductNames ==
    <<"p01", "p02", "p03", "p04", "p05", "p06", "p07", "p08", "p09", "p10", "p11",
      "p12", "p13">>

\* Product cells the summarizer discards
InvalidProducts == {NaN, Text(""), Text("nan"), Text("None")}

\* order r, of one unit of the product at price p
ProductRow(r, product, p) ==
    <<Num(r), product, Num(1), p, Text("2023-01-01"), Text("West"),
      FileCell(<<"x", "csv">>)>>

\* prices: one and two steps of the fixed point (both below half a cent), and 1
SmallPrices == {[k |-> "num", v |-> 1], [k |-> "num", v |-> 2], Num(1)}

\* MaxProducts orders of different products, the first of which may have no valid
\* Product and the last three of which are cheap, with or without one more order
\* of a product already sold
ProductTables ==
    {[r \in 1..(MaxProducts + extra[1]) |->
        IF r = 1 THEN ProductRow(r, first, Num(5))
        ELSE IF r > MaxProducts THEN ProductRow(r, Text(ProductNames[extra[2]]), Num(1))
        ELSE IF r > MaxProducts - 3 THEN ProductRow(r, Text(ProductNames[r]), f[r])
        ELSE ProductRow(r, Text(ProductNames[r]), Num(5))] :
        first \in InvalidProducts \cup {Text(ProductNames[1])},
        f \in [(MaxProducts - 2)..MaxProducts -> SmallPrices],
        extra \in {<<0, 1>>, <<1, 2>>, <<1, MaxProducts>>}}

\* short tables without any valid Product
InvalidProductTables ==
    UNION {{[r \in 1..n |-> ProductRow(r, g[r], Num(5))] : g \in [1..n -> InvalidProducts]} :
           n \in 0..2}

SummaryInputs ==
    {DataFrame(Append(required_cols, "Source_File"), rows) :
        rows \in ProductTables \cup InvalidProductTables}

InitSummary ==
    /\ IdleSession /\ IdleClamp /\ IdleLoop /\ IdleScan /\ IdleFallback
    /\ df_in \in SummaryInputs
    /\ df_out = None

\* summary = self.generate_file_summary(df_clean, file_name)
Summarize ==
    /\ df_out # None
    /\ call.op = "init"
    /\ call' = Call("generate_file_summary", <<>>, NoFault, FALSE, FALSE)
    /\ IF SummaryRaises(df_out[1])
       THEN ret' = Ret(TRUE, "generate_file_summary", <<>>, None, <<>>)
       ELSE \E top \in top_products(df_out[1]) :
               ret' = Ret(FALSE, "", <<>>,
                          Some(FileSummary(df_out[1], MapFileName, top)), <<>>)
    /\ UNCHANGED <<processed_files, combined_data, written, clock, succeeded,
                   clampVars, cleanVars, loopVars, scanVars, fallbackVars>>

NextSummary == Clean \/ Summarize

SpecSummary == InitSummary /\ [][NextSummary]_vars

--------------------------------------------------------------------------
(* Properties.  Helpers first. *)

\* the paths whose processing raises
FailingPaths == {p \in Paths : SingleFile(p).error # ""}

\* the stored entries whose cleaned table has rows, in dict order
NonEmptyEntries == SelectSeq(processed_files, LAMBDA e : Len(e.processed_data.rows) > 0)

RECURSIVE CleanedRowsOf(_)
CleanedRowsOf(S) ==
    IF S = {} THEN 0
    ELSE LET p == CHOOSE q \in S : TRUE
         IN  Len(SingleFile(p).entry.processed_data.rows) + CleanedRowsOf(S \ {p})

IsBatch == call.op = "process_multiple_files"
IsMerge == call.op = "combine_all_data"
MergeSucceeded == IsMerge /\ ret.data # None
Merged == ret.data[1]
SourceFileOf(df, r) == df.rows[r][ColPos(df, "Source_File")]
Rank(c) == CHOOSE i \in DOMAIN SortedLabels : SortedLabels[i] = c

\* C1: process_multiple_files never aborts because a file fails: it returns the
\* outcome mapping; a file whose processing raises is recorded as a failure carrying
\* its path and the message (unless a later path of the same name replaces the
\* record), and every file that can be processed, also after a failure, is processed.
C1_FailureIsolated ==
    IsBatch =>
      /\ ~ret.raised
      /\ \A i \in DOMAIN call.file_paths :
           LET p == call.file_paths[i]
               replaced == \E j \in (i + 1)..Len(call.file_paths) :
                              Name(call.file_paths[j]) = Name(p)
           IN  /\ DictHas(ret.results, Name(p))
               /\ (p \in FailingPaths /\ ~replaced) =>
                     LET o == DictGet(ret.results, Name(p))
                     IN  ~o.success /\ o.file_path = p /\ o.error # "" /\ o.data = None
               /\ p \notin FailingPaths =>
                     /\ p \in succeeded
                     /\ DictHas(processed_files, Name(p))
                     /\ ~replaced => DictGet(ret.results, Name(p)).success

\* C1 witness: a batch whose first file fails and whose later file is processed
C1_Witness ==
    /\ IsBatch
    /\ Len(call.file_paths) = 2
    /\ call.file_paths[1] \in FailingPaths
    /\ call.file_paths[2] \notin FailingPaths
    /\ Len(ret.results) = 2
    /\ ~ret.results[1].success /\ ret.results[2].success

\* C2 (as claimed): the mapping process_multiple_files returns has one outcome per
\* path of the list, so as many outcomes as (distinct) paths, also when two paths in
\* different directories have the same file name.
C2_OneOutcomePerPath ==
    (IsBatch /\ \A i, j \in DOMAIN call.file_paths :
                   call.file_paths[i] = call.file_paths[j] => i = j)
      => Len(ret.results) = Len(call.file_paths)

\* C3 (as claimed): when the full-union tier succeeds, the merged table has as many
\* rows as the cleaned tables of all successfully processed files together.
C3_UnionRowCount ==
    (MergeSucceeded /\ call.fault.kind = "none")
      => Len(Merged.rows) = CleanedRowsOf(succeeded)

\* C4 (as claimed): whenever merge succeeds, the name of every successfully processed
\* file occurs in the Source_File column of the merged table.
C4_EveryProcessedFileAppears ==
    MergeSucceeded =>
      \A p \in succeeded :
         \E r \in DOMAIN Merged.rows : SourceFileOf(Merged, r) = FileCell(Name(p))

\* C4 (amended): whenever merge succeeds, under either tier, every file name under
\* which processed_files holds a cleaned table with at least one row occurs in the
\* Source_File column of the merged table.
C4_EveryStoredNonEmptyAppears ==
    MergeSucceeded =>
      \A i \in DOMAIN processed_files :
         Len(processed_files[i].processed_data.rows) > 0 =>
            \E r \in DOMAIN Merged.rows :
               SourceFileOf(Merged, r) = FileCell(processed_files[i].name)

\* C4 witness: the fallback tier merged two stored files and both names occur
C4_Witness ==
    /\ MergeSucceeded /\ call.fault.kind = "union"
    /\ Len(NonEmptyEntries) = 2
    /\ \A i \in 1..2 : \E r \in DOMAIN Merged.rows :
          SourceFileOf(Merged, r) = FileCell(NonEmptyEntries[i].name)

\* C5: every row of the merge output carries in Source_File the name of the stored
\* file it comes from: the name of a stored non-empty table that has a row agreeing
\* with it on every column they share, and each such table accounts for exactly as
\* many merged rows as it has rows; under either tier, also when the file had a
\* Source_File column of its own.
C5_RowsCarryOrigin ==
    MergeSucceeded =>
      /\ \A r \in DOMAIN Merged.rows :
            \E i \in DOMAIN NonEmptyEntries :
               LET e == NonEmptyEntries[i]
               IN  /\ SourceFileOf(Merged, r) = FileCell(e.name)
                   /\ \E q \in DOMAIN e.processed_data.rows :
                         \A c \in DOMAIN Merged.columns :
                            HasColumn(e.processed_data, Merged.columns[c]) =>
                               Merged.rows[r][c] =
                                  e.processed_data.rows[q][ColPos(e.processed_data,
                                                                  Merged.columns[c])]
      /\ \A i \in DOMAIN NonEmptyEntries :
            Cardinality({r \in DOMAIN Merged.rows :
                            SourceFileOf(Merged, r) = FileCell(NonEmptyEntries[i].name)})
               = Len(NonEmptyEntries[i].processed_data.rows)

\* C5 witness: a fallback merge that includes the file which came with its own
\* Source_File column, next to another file
C5_Witness ==
    /\ MergeSucceeded /\ call.fault.kind = "union"
    /\ Len(NonEmptyEntries) = 2
    /\ \E i \in 1..2 : /\ NonEmptyEntries[i].file_path = PathAXlsx
                       /\ HasColumn(NonEmptyEntries[i].original_data, "Source_File")
    /\ \E r \in DOMAIN Merged.rows : SourceFileOf(Merged, r) = FileCell(Name(PathAXlsx))

\* the merged rows before those of the t-th table
RowsBefore(t) == SumSeq([u \in 1..(t - 1) |-> Len(NonEmptyEntries[u].processed_data.rows)])

\* C6: a full-union merge has exactly the union of the tables' columns, in
\* lexicographic order; the rows come in table order then row order, each with its
\* table's cells and NaN in the columns its table lacks.
C6_FullUnionShape ==
    (MergeSucceeded /\ call.fault.kind = "none") =>
      /\ Range(Merged.columns) =
            UNION {Range(NonEmptyEntries[t].processed_data.columns) : t \in DOMAIN NonEmptyEntries}
      /\ \A i, j \in DOMAIN Merged.columns :
            i < j => Rank(Merged.columns[i]) < Rank(Merged.columns[j])
      /\ Len(Merged.rows) = RowsBefore(Len(NonEmptyEntries) + 1)
      /\ \A t \in DOMAIN NonEmptyEntries :
            LET df == NonEmptyEntries[t].processed_data
            IN  \A q \in DOMAIN df.rows : \A i \in DOMAIN Merged.columns :
                   Merged.rows[RowsBefore(t) + q][i] =
                      IF HasColumn(df, Merged.columns[i])
                      THEN df.rows[q][ColPos(df, Merged.columns[i])]
                      ELSE NaN

\* C6 witness: a full-union merge of two tables with different columns, where a row
\* of the first lacks a column of the second and the other way round
C6_Witness ==
    /\ MergeSucceeded /\ call.fault.kind = "none"
    /\ Len(NonEmptyEntries) = 2
    /\ \E c \in Range(Merged.columns) :
          /\ HasColumn(NonEmptyEntries[1].processed_data, c)
          /\ ~HasColumn(NonEmptyEntries[2].processed_data, c)
    /\ \E c \in Range(Merged.columns) :
          /\ ~HasColumn(NonEmptyEntries[1].processed_data, c)
          /\ HasColumn(NonEmptyEntries[2].processed_data, c)

\* C7: when both tiers fail, combine_all_data returns None, never the table the
\* failed fallback had built so far; with nothing to merge it returns None as well,
\* and a table it returns is never without rows.
C7_FailureReturnsNone ==
    IsMerge =>
      /\ call.fault.kind \in {"group", "fold"} => ret.data = None
      /\ NonEmptyEntries = <<>> => ret.data = None
      /\ ret.data # None => Len(Merged.rows) > 0

\* C7 witness: the fallback failed in its fold, after building part of the table
C7_Witness ==
    /\ IsMerge /\ call.fault.kind = "fold"
    /\ ret.data = None
    /\ combined_data # None

\* C8 (as claimed): a merge that returns None leaves no merged table in
\* combined_data, so a following save_results(combined_file=True) writes none.
C8_NoStaleMergedTable ==
    (IsMerge /\ call.fault.kind = "none" /\ ret.data = None) =>
      /\ combined_data = None
      /\ \A i \in DOMAIN save_results(written, processed_files, combined_data, clock,
                                      FALSE, TRUE).saved_files :
            save_results(written, processed_files, combined_data, clock,
                         FALSE, TRUE).saved_files[i].kind # "combined_data"

\* the larger of the order statistics Q3 is interpolated between
Q3UpperSupport(cells) ==
    LET s == SortedValues(cells)
        n == Len(s)
        lo == ((n - 1) * 3) \div 4
    IN  IF ((n - 1) * 3) % 4 = 0 THEN s[lo + 1] ELSE s[lo + 2]

\* the first clamp leaves the values Q3 is computed from as they are
Q3Kept(cells) ==
    \/ SortedValues(cells) = <<>>
    \/ 8 * Q3UpperSupport(cells) <= UpperBound8(SortedValues(cells))

\* C9 (as claimed): clamping a column that has been clamped once changes no value.
C9_ClampIdempotent == applied >= 2 => col = prev

\* C9 (amended): clamping a column that has been clamped once changes no value
\* exactly when the first clamp left the values Q3 is interpolated between unchanged
\* (the larger of them was not above the bound); when that value was clamped, Q3 and
\* with it the bound drop, and the second clamp lowers the clamped values again.
C9_ClampIdempotentIffQ3Kept ==
    applied = 2 => (col = prev <=> Q3Kept(orig))

\* C9 witness: the first clamp changed the column, Q3's values were kept, and the
\* second clamp changed nothing
C9_Witness ==
    /\ applied = 2
    /\ prev # orig
    /\ Q3Kept(orig)
    /\ col = prev

\* the Price cells of the table handed to the cleaner, and those that are numbers
PriceIn == Column(df_in, "Price")
PricedRows == {i \in DOMAIN PriceIn : IsNum(PriceIn[i])}

\* x is the k-th smallest of the non-missing input prices
IsKthPrice(x, k) ==
    /\ Cardinality({i \in PricedRows : PriceIn[i].v < x}) < k
    /\ Cardinality({i \in PricedRows : PriceIn[i].v <= x}) >= k

\* the median of the non-missing input prices, by rank
PriceMedian ==
    LET n == Cardinality(PricedRows)
        Kth(k) == CHOOSE x \in {PriceIn[i].v : i \in PricedRows} : IsKthPrice(x, k)
    IN  IF n % 2 = 1 THEN Kth((n + 1) \div 2)
        ELSE (Kth(n \div 2) + Kth(n \div 2 + 1)) \div 2

\* the price row i is expected to have after cleaning
ExpectedPrice(i) ==
    IF ~isnull(PriceIn[i]) THEN PriceIn[i]
    ELSE IF PricedRows = {} THEN NaN
    ELSE [k |-> "num", v |-> PriceMedian]

\* row i with its expected price and its Region filled
ExpectedRow(i) ==
    [c \in DOMAIN df_in.columns |->
        IF df_in.columns[c] = "Price" THEN ExpectedPrice(i)
        ELSE IF df_in.columns[c] = "Region" /\ isnull(df_in.rows[i][c]) THEN Text("Unknown")
        ELSE df_in.rows[i][c]]

\* the rows that are not equal to an earlier row once filled
KeptRows == {i \in DOMAIN df_in.rows : \A j \in 1..(i - 1) : ExpectedRow(j) # ExpectedRow(i)}

\* C10 (as claimed): when Price has a non-missing value, full-mode cleaning leaves no
\* Price missing: the Price column of the result is, for the rows that survive
\* deduplication and in their order, the original price where there was one and
\* the median of all original non-missing prices (duplicates included) elsewhere.
C10_PriceFilledWithMedian ==
    (df_out # None /\ \E i \in DOMAIN PriceIn : ~isnull(PriceIn[i])) =>
      LET out == Column(df_out[1], "Price")
      IN  /\ \A i \in DOMAIN out : ~isnull(out[i])
          /\ out = Pick([i \in DOMAIN df_in.rows |-> ExpectedPrice(i)], KeptRows, 1)

\* C10 on tables whose Price cells are numbers or missing: there the fill is the
\* median and no Price stays missing (the part of the claim the code keeps)
C10_NumericPriceFilled ==
    (df_out # None /\ PricedRows # {} /\ ~HasText(df_in, "Price")) =>
      LET out == Column(df_out[1], "Price")
      IN  /\ \A i \in DOMAIN out : ~isnull(out[i])
          /\ out = Pick([i \in DOMAIN df_in.rows |-> ExpectedPrice(i)], KeptRows, 1)

\* C11 (as claimed): a table cleaned in full mode has a Sales column; in every row
\* where the final Quantity and the final Price are both present, Sales is exactly
\* their product, and where one of them is missing Sales is missing.
C11_SalesIsQuantityTimesPrice ==
    (df_out # None /\ has_sales_data(df_in)) =>
      LET out == df_out[1]
      IN  /\ HasColumn(out, "Sales")
          /\ \A r \in DOMAIN out.rows :
                LET q == Column(out, "Quantity")[r]
                    p == Column(out, "Price")[r]
                    sales == Column(out, "Sales")[r]
                IN  IF IsNum(q) /\ IsNum(p)
                    THEN IsNum(sales) /\ sales.v * Unit = q.v * p.v
                    ELSE isnull(sales)

\* C11 on tables whose Price cells are numbers or missing
C11_NumericSales ==
    ~HasText(df_in, "Price") => C11_SalesIsQuantityTimesPrice

\* the cells of column c the retained rows are expected to have, in input order
ExpectedColumn(c) ==
    Pick([i \in DOMAIN df_in.rows |-> ExpectedRow(i)[ColPos(df_in, c)]], KeptRows, 1)

\* C12: deduplication keeps, of rows that are identical once Price and Region are
\* filled, the first, and the retained rows keep their input order: the result has
\* one row per first occurrence, in input order, with that row's Order_ID, Product,
\* Region and Source_File, and its Quantity (clamped against the retained rows).
C12_DedupKeepsFirstInOrder ==
    df_out # None =>
      /\ Len(df_out[1].rows) = Cardinality(KeptRows)
      /\ \A c \in {"Order_ID", "Product", "Region", "Source_File"} :
            Column(df_out[1], c) = ExpectedColumn(c)
      /\ Column(df_out[1], "Quantity") = ClampQuantity(ExpectedColumn("Quantity"))

\* C12 witness: a row was dropped that had a different row between it and the equal
\* row before it, so keeping the last occurrence would have changed the order
C12_Witness ==
    /\ df_out # None
    /\ \E i, j, l \in DOMAIN df_in.rows :
          /\ i < j /\ j < l
          /\ df_in.rows[i] = df_in.rows[l]
          /\ Column(df_in, "Quantity")[j] # Column(df_in, "Quantity")[i]
          /\ i \in KeptRows /\ j \in KeptRows /\ l \notin KeptRows
    /\ Len(df_out[1].rows) = 2

\* C13: neither basic_data_cleaning (full or partial mode) nor standardize_columns
\* changes the table its caller passed in: across every call the caller's table
\* keeps its columns, rows and values.
C13_InputNotMutated == [][df_in' = df_in]_vars

\* C13 witness: a call has returned a table that differs from the caller's, which
\* still has the vendor's column names and no Sales column
C13_Witness ==
    /\ df_out # None
    /\ df_out[1] # df_in
    /\ \/ HasColumn(df_in, "Qty") /\ HasColumn(df_out[1], "Quantity")
       \/ ~HasColumn(df_in, "Sales") /\ HasColumn(df_out[1], "Sales")

\* the stored entries are those of the vendor-named a/x.xlsx and the canonically
\* named a/x.csv
VendorAndCanonicalStored ==
    /\ Len(processed_files) = 2
    /\ {processed_files[i].file_path : i \in DOMAIN processed_files} = {PathAX, PathAXlsx}

C15_LaterColumnOverwrites ==
    (call.op = "standardize_columns" /\ df_out # None) =>
      \A i, j \in DOMAIN df_in.columns :
         (i < j /\ NewColumn(df_in.columns[i]) = NewColumn(df_in.columns[j])) =>
            /\ Cardinality(Positions(df_out[1], NewColumn(df_in.columns[j]))) = 1
            /\ Column(df_out[1], NewColumn(df_in.columns[j]))
                  = [r \in DOMAIN df_in.rows |-> df_in.rows[r][j]]

\* C16 (as claimed): a file that loads and maps to a full-mode table without repeated
\* labels is recorded as a success whatever its Quantity, Price and Order_Date cells
\* hold, and its cleaned Quantity and Price cells are numbers or missing.
C16_ParseAnomaliesNeverFail ==
    IsBatch =>
      \A i \in DOMAIN call.file_paths :
         LET p == call.file_paths[i]
             df_std == standardize_columns(Content(p), Name(p))
             replaced == \E j \in (i + 1)..Len(call.file_paths) :
                            Name(call.file_paths[j]) = Name(p)
         IN  (/\ ~replaced /\ ~LoadRaises(p)
              /\ has_sales_data(df_std) /\ ~ColumnsDuplicated(df_std)) =>
                /\ DictHas(ret.results, Name(p))
                /\ DictGet(ret.results, Name(p)).success
                /\ \A c \in {"Quantity", "Price"} :
                      ~HasText(DictGet(ret.results, Name(p)).data[1], c)

\* C17 (as claimed): every file a save_results call writes has a timestamp in its
\* name: the cleaned tables, the merged table, the summary and the analysis report.
C17_OutputNamesEmbedTimestamp ==
    call.op = "save_results" =>
      \A i \in DOMAIN ret.saved_files : ret.saved_files[i].ts # <<>>

\* C17 without the report: the names of the cleaned tables, the merged table and the
\* summary do embed the timestamp
C17_TableNamesEmbedTimestamp ==
    call.op = "save_results" =>
      \A i \in DOMAIN ret.saved_files :
         ret.saved_files[i].kind # "sales_analysis_report" =>
            ret.saved_files[i].ts # <<>>

--------------------------------------------------------------------------
(* The loop of process_multiple_files, step by step *)

\* the steps that end the processing of a file
FileEnds == {"record", "except"}

\* how many files had been finished before the j-th entry of history
FinishedBefore(j) == Cardinality({m \in 1..(j - 1) : history[m].kind \in FileEnds})

\* the steps of iteration k so far, in order, the callback calls left out
StepsOf(k) ==
    LET own == SelectSeq(history, LAMBDA e : e.k = k /\ e.kind # "hook")
    IN  [m \in DOMAIN own |-> own[m].kind]

FullSteps == <<"load", "map", "clean", "summarize", "store", "record">>

IsPrefix(a, b) == Len(a) <= Len(b) /\ \A m \in DOMAIN a : a[m] = b[m]

\* self.processed_files, rebuilt from the store steps of history
RECURSIVE StoredBy(_)
StoredBy(h) ==
    IF h = <<>> THEN <<>>
    ELSE LET e == h[Len(h)]
             before == StoredBy(SubSeq(h, 1, Len(h) - 1))
         IN  IF e.kind = "store"
             THEN DictSet(before, Name(call.file_paths[e.k]),
                          SingleFile(call.file_paths[e.k]).entry)
             ELSE before

\* C18: with a progress_callback, each call of it happens between files (never in
\* the middle of one) and reports (number of files finished, N); as soon as a file
\* is finished the callback is called with the index of that file, before the next
\* file starts; the reported index never decreases, and the last call reports N.
C18_HookAfterEachFile ==
    (progress_callback /\ pc # "idle") =>
      /\ \A j \in DOMAIN history :
           history[j].kind = "hook" =>
              /\ history[j].current = FinishedBefore(j)
              /\ history[j].current \in 0..total_files
              /\ j > 1 => history[j - 1].kind \in FileEnds
      /\ \A j \in DOMAIN history :
           (history[j].kind \in FileEnds /\ j < Len(history)) =>
              /\ history[j + 1].kind = "hook"
              /\ history[j + 1].current = history[j].k
      /\ \A j, m \in DOMAIN history :
           (j < m /\ history[j].kind = "hook" /\ history[m].kind = "hook") =>
              history[j].current <= history[m].current
      /\ pc \in {"return", "done"} =>
           /\ history # <<>>
           /\ history[Len(history)].kind = "hook"
           /\ history[Len(history)].current = total_files

\* C18 witness: a call with two files has returned; the callback was called before
\* the first file with 0, after it with 1 and after the second with 2
C18_Witness ==
    /\ pc = "done" /\ progress_callback /\ total_files = 2
    /\ LET hooks == SelectSeq(history, LAMBDA e : e.kind = "hook")
       IN  [m \in DOMAIN hooks |-> hooks[m].current] = <<0, 1, 2>>
    /\ \E j \in DOMAIN history :
          history[j].kind = "record" /\ history[j + 1].kind = "hook"

\* C19: files are processed one after the other in list order: every step of file k
\* precedes every step of file k+1; the steps of a file are load, map, clean,
\* summarize, then the write of its entry into self.processed_files, then its
\* outcome (or the steps up to the one that raised, then the failure outcome);
\* self.processed_files is written by these store steps only, once per file, and
\* every file that can be processed is stored by the time the call returns.
C19_StrictlySequential ==
    pc # "idle" =>
      /\ \A j, m \in DOMAIN history : j < m => history[j].k <= history[m].k
      /\ \A k \in 1..total_files :
           \/ IsPrefix(StepsOf(k), FullSteps)
           \/ /\ StepsOf(k)[Len(StepsOf(k))] = "except"
              /\ IsPrefix(SubSeq(StepsOf(k), 1, Len(StepsOf(k)) - 1),
                          SubSeq(FullSteps, 1, 4))
      /\ \A k \in 1..(total_files - 1) :
           StepsOf(k + 1) # <<>> =>
              /\ StepsOf(k) # <<>>
              /\ StepsOf(k)[Len(StepsOf(k))] \in FileEnds
      /\ processed_files = StoredBy(history)
      /\ pc = "done" =>
           \A k \in 1..total_files :
              call.file_paths[k] \notin FailingPaths => StepsOf(k) = FullSteps

\* C19 witness: a call with two files of different names has returned and both are
\* stored, the first before the second was loaded
C19_Witness ==
    /\ pc = "done" /\ total_files = 2
    /\ Len(processed_files) = 2
    /\ StepsOf(1) = FullSteps /\ StepsOf(2) = FullSteps
    /\ processed_files[1].file_path = call.file_paths[1]
    /\ processed_files[2].file_path = call.file_paths[2]

--------------------------------------------------------------------------
(* The scanner *)

\* the relative paths of the files under the directory with a supported extension
SupportedFiles ==
    {<<e.dir, e.stem, e.suffix>> :
        e \in {x \in disk : ~x.is_dir /\ LowerSuffix(x.suffix) \in {"csv", "xlsx"}}}

\* C20 (as claimed): scan_directory raises the not-found error when the directory
\* does not exist; otherwise it returns, leaving the session as it was, a strictly
\* ascending list of absolute paths that are exactly the files under the directory
\* with one of the two supported extensions.
C20_ScanListsSupportedFiles ==
    scanned # None =>
      LET r == scanned[1]
      IN  IF ~directory.exists
          THEN r.raised /\ r.error = "FileNotFoundError"
          ELSE /\ ~r.raised
               /\ processed_files = <<>> /\ combined_data = None
               /\ \A j, m \in DOMAIN r.files :
                     j < m => StrRank(r.files[j].rel) < StrRank(r.files[m].rel)
               /\ \A j \in DOMAIN r.files : r.files[j].absolute
               /\ {r.files[j].rel : j \in DOMAIN r.files} = SupportedFiles

\* C20 for a directory given as an absolute path that holds no directory named like
\* a data file and, where names are case sensitive, no upper-case extension
C20_ScanOfPlainTree ==
    (/\ scanned # None /\ directory.exists /\ directory.absolute
     /\ \A e \in disk : ~e.is_dir
     /\ directory.case_sensitive => \A e \in disk : e.suffix # "CSV")
       => C20_ScanListsSupportedFiles

--------------------------------------------------------------------------
(* The outlier clamp inside the cleaner *)

\* the Quantity cells of the rows that survive deduplication, in input order
QuantityKept == ExpectedColumn("Quantity")

\* the k-th smallest of the numbers in cells, by rank
KthSmallest(cells, k) ==
    LET nums == {j \in DOMAIN cells : IsNum(cells[j])}
    IN  CHOOSE x \in {cells[j].v : j \in nums} :
           /\ Cardinality({j \in nums : cells[j].v < x}) < k
           /\ Cardinality({j \in nums : cells[j].v <= x}) >= k

\* 4 * the quantile at j/4 of the numbers in cells: linear interpolation at position
\* (n - 1) * j / 4
Quartile4(cells, j) ==
    LET n == Cardinality({m \in DOMAIN cells : IsNum(cells[m])})
        lo == ((n - 1) * j) \div 4
        w == ((n - 1) * j) % 4
    IN  IF w = 0 THEN 4 * KthSmallest(cells, lo + 1)
        ELSE (4 - w) * KthSmallest(cells, lo + 1) + w * KthSmallest(cells, lo + 2)

\* 8 * (Q3 + 1.5 * (Q3 - Q1)), given 4 * Q1 and 4 * Q3
Bound8(q1, q3) == 2 * q3 + 3 * (q3 - q1)

\* C21: in full mode the Quantity column of the result is that of the rows kept by
\* deduplication, in order and none removed, with exactly the values strictly above
\* Q3 + 1.5 * (Q3 - Q1) replaced by that bound, Q1 and Q3 being the
\* linear-interpolation quartiles of the kept rows; values below are never raised;
\* Quantity 1, 2, 3, 4, 100 gives Q1 = 2, Q3 = 4, bound 7 and 1, 2, 3, 4, 7.
C21_ClampAboveUpperBound ==
    df_out # None =>
      \A kept \in {QuantityKept} :
         LET out == Column(df_out[1], "Quantity")
         IN  /\ Len(out) = Len(kept)
             /\ (\E r \in DOMAIN kept : IsNum(kept[r])) =>
                  \A q1 \in {Quartile4(kept, 1)}, q3 \in {Quartile4(kept, 3)} :
                     /\ \A r \in DOMAIN out :
                           IF IsNum(kept[r]) /\ 8 * kept[r].v > Bound8(q1, q3)
                           THEN IsNum(out[r]) /\ 8 * out[r].v = Bound8(q1, q3)
                           ELSE out[r] = kept[r]
                     /\ df_in.rows = ScenarioB =>
                           /\ q1 = 4 * 2 * Unit /\ q3 = 4 * 4 * Unit
                           /\ Bound8(q1, q3) = 8 * 7 * Unit
                           /\ out = <<Num(1), Num(2), Num(3), Num(4), Num(7)>>
             /\ (\A r \in DOMAIN kept : ~IsNum(kept[r])) => out = kept

\* C21 witness: a row was dropped, and a Quantity that is above the bound of the kept
\* rows was clamped although it is not above the bound of all the rows
C21_Witness ==
    /\ df_out # None
    /\ Len(df_out[1].rows) < Len(df_in.rows)
    /\ \E kept \in {QuantityKept} :
          \E r \in DOMAIN kept :
             /\ IsNum(kept[r])
             /\ 8 * kept[r].v > Bound8(Quartile4(kept, 1), Quartile4(kept, 3))
             /\ Column(df_out[1], "Quantity")[r] # kept[r]
             /\ 8 * kept[r].v <= UpperBound8(SortedValues(Column(df_in, "Quantity")))

\* C21 witness for the scenario: Quantity 1, 2, 3, 4, 100 was cleaned
C21_ScenarioCleaned ==
    df_out # None /\ df_in.rows = ScenarioB

\* C28: one application of the clamp keeps the number and order of the cells and
\* every missing cell, raises no value, changes no value that is at or below the
\* upper bound computed before the clamp, and leaves every value at or below that
\* bound.
C28_ClampMonotoneBounded ==
    applied >= 1 =>
      /\ Len(col) = Len(prev)
      /\ \A r \in DOMAIN prev : isnull(prev[r]) => col[r] = prev[r]
      /\ (\E r \in DOMAIN prev : IsNum(prev[r])) =>
           \A bound \in {Bound8(Quartile4(prev, 1), Quartile4(prev, 3))} :
              \A r \in DOMAIN prev :
                 IsNum(prev[r]) =>
                    /\ IsNum(col[r])
                    /\ col[r].v <= prev[r].v
                    /\ 8 * col[r].v <= bound
                    /\ 8 * prev[r].v <= bound => col[r] = prev[r]

\* C28 witness: a column with a missing cell and a value above the bound was clamped
C28_Witness ==
    /\ applied = 1
    /\ \E r \in DOMAIN prev : isnull(prev[r])
    /\ \E r \in DOMAIN prev : IsNum(prev[r]) /\ col[r].v < prev[r].v
    /\ \E r \in DOMAIN prev : IsNum(prev[r]) /\ col[r].v = prev[r].v

--------------------------------------------------------------------------
(* The fallback tier *)

\* the rows of a table as functions from its labels to cells
RowsByLabel(df) ==
    [r \in DOMAIN df.rows |-> [c \in Range(df.columns) |-> df.rows[r][ColPos(df, c)]]]

\* the tables that are the first of the list with their set of labels, in list order
GroupLeaders ==
    SelectSeq([t \in DOMAIN tables |-> t],
              LAMBDA t : \A u \in 1..(t - 1) :
                            Range(tables[u].df.columns) # Range(tables[t].df.columns))

\* the rows of the tables from position t on that have the labels S, in list order
RECURSIVE GroupRows(_, _)
GroupRows(S, t) ==
    IF t > Len(tables) THEN <<>>
    ELSE (IF Range(tables[t].df.columns) = S THEN RowsByLabel(tables[t].df) ELSE <<>>)
         \o GroupRows(S, t + 1)

\* the labels after the first m groups: the running labels intersected with the next
\* group's, or united with them when they share none
RECURSIVE FoldedLabels(_)
FoldedLabels(m) ==
    IF m = 1 THEN Range(tables[GroupLeaders[1]].df.columns)
    ELSE LET acc == FoldedLabels(m - 1)
             next == Range(tables[GroupLeaders[m]].df.columns)
         IN  IF acc \cap next # {} THEN acc \cap next ELSE acc \cup next

\* a row cut down or widened to the labels S, NaN where it has no cell
Fit(row, S) == [c \in S |-> IF c \in DOMAIN row THEN row[c] ELSE NaN]

\* the rows after the first m groups: all rows so far, then all rows of the next
\* group, each fitted to the new labels
RECURSIVE FoldedRows(_)
FoldedRows(m) ==
    LET own == GroupRows(Range(tables[GroupLeaders[m]].df.columns), 1)
    IN  IF m = 1 THEN own
        ELSE LET all == FoldedRows(m - 1) \o own
             IN  [r \in DOMAIN all |-> Fit(all[r], FoldedLabels(m))]

\* C22: the fallback groups the tables by their set of labels and concatenates each
\* group, then folds the groups in order of first appearance: a group that shares a
\* label with the running result leaves the shared labels only, one that shares
\* none leaves the labels of both with NaN where a row has no cell; every row of
\* every table is in the result, in that order.
C22_FallbackFold ==
    fallback # None =>
      \A out \in {fallback[1]} :
         /\ Range(out.columns) = FoldedLabels(Len(GroupLeaders))
         /\ Len(out.columns) = Cardinality(Range(out.columns))
         /\ RowsByLabel(out) = FoldedRows(Len(GroupLeaders))
         /\ Len(out.rows) = SumSeq([t \in DOMAIN tables |-> Len(tables[t].df.rows)])

\* C22 witness: three groups; the second shares no label with the first, the third
\* shares one with the result of the two, and two rows of the first are in the result
C22_Witness ==
    /\ fallback # None
    /\ Len(GroupLeaders) = 3
    /\ FoldedLabels(2) = Range(tables[1].df.columns) \cup Range(tables[2].df.columns)
    /\ Range(tables[1].df.columns) \cap Range(tables[2].df.columns) = {}
    /\ FoldedLabels(3) # FoldedLabels(2)
    /\ Len(fallback[1].rows) = 4

\* C22 witness for the grouping: the first and the third table have the same labels
\* and are concatenated before the second is folded in
C22_GroupedWitness ==
    /\ fallback # None
    /\ Len(tables) = 3 /\ Len(GroupLeaders) = 2
    /\ Range(tables[1].df.columns) = Range(tables[3].df.columns)
    /\ Range(tables[1].df.columns) \cap Range(tables[2].df.columns) # {}

--------------------------------------------------------------------------
(* Partial mode *)

\* basic_data_cleaning has returned for a table that lacks a canonical field
PartialCleaned == df_out # None /\ call.op = "init" /\ ~has_sales_data(df_in)

\* what partial mode leaves of a cell under a label
PartialCell(label, c) ==
    IF label \in {"Order_Date", "date", "Date"} /\ c.k = "text"
    THEN (IF c.v \in DOMAIN ParsableDates THEN Date(ParsableDates[c.v]) ELSE NaN)
    ELSE IF label \in {"Quantity", "Price", "Sales"} /\ c.k = "text"
    THEN (IF c.v \in DOMAIN ParsableNumbers THEN Num(ParsableNumbers[c.v]) ELSE NaN)
    ELSE c

\* C23: in partial mode the result has the labels of the input (no Sales is added)
\* and the rows of the input in their order, repeated rows included; a cell changes
\* only under a date-like or numeric-like label and only by being parsed, an
\* unparsable one becoming missing: no missing Price or Region is filled and no
\* Quantity is clamped.
C23_PartialModeOnlyParses ==
    PartialCleaned =>
      /\ df_out[1].columns = df_in.columns
      /\ Len(df_out[1].rows) = Len(df_in.rows)
      /\ \A r \in DOMAIN df_in.rows : \A n \in DOMAIN df_in.columns :
            df_out[1].rows[r][n] = PartialCell(df_in.columns[n], df_in.rows[r][n])

\* C23 witness: a table with a repeated row, and a Quantity the full mode would have
\* clamped, came out with all its rows and quantities
C23_Witness ==
    /\ PartialCleaned
    /\ HasColumn(df_in, "Quantity") /\ HasColumn(df_in, "Order_Date")
    /\ \E r, q \in DOMAIN df_in.rows : r < q /\ df_in.rows[r] = df_in.rows[q]
    /\ ClampQuantity(Column(df_in, "Quantity")) # Column(df_in, "Quantity")
    /\ Column(df_out[1], "Quantity") = Column(df_in, "Quantity")
    /\ \E r \in DOMAIN df_in.rows : isnull(Column(df_out[1], "Order_Date")[r])

\* C23 witness for the cells: a missing Price and a missing Region stayed missing, and
\* an unparsable Price became missing
C23_MissingKept ==
    /\ PartialCleaned
    /\ HasColumn(df_in, "Price") /\ HasColumn(df_in, "Region")
    /\ \E r \in DOMAIN df_in.rows :
          isnull(Column(df_in, "Price")[r]) /\ isnull(Column(df_out[1], "Price")[r])
          /\ isnull(Column(df_out[1], "Region")[r])

--------------------------------------------------------------------------
(* C24: the per-Product aggregate of a summary *)

Summarized == call.op = "generate_file_summary"

\* a Product cell that is present and not "", "nan" or "None"
ValidProduct(c) == c.k = "text" /\ c.v \notin {"", "nan", "None"}

\* total Sales of product p in the cleaned table, in fixed point
TotalSales(df, p) ==
    SumSeq([r \in DOMAIN df.rows |->
               IF Column(df, "Product")[r] = Text(p) /\ IsNum(Column(df, "Sales")[r])
               THEN Column(df, "Sales")[r].v ELSE 0])

ValidProducts(df) ==
    {Column(df, "Product")[r].v :
        r \in {x \in DOMAIN df.rows : ValidProduct(Column(df, "Product")[x])}}

\* C24: the summarizer does not raise; the per-Product aggregate has at most 10
\* products, each of them valid, and no product left out has a larger total Sales
\* than a product in it; without any valid Product there is no aggregate
C24_TopTenProducts ==
    Summarized =>
        /\ ~ret.raised
        /\ \A df \in {df_out[1]} : \A top \in {ret.data[1].top_products} :
              IF ValidProducts(df) = {} THEN top = None
              ELSE /\ top # None
                   /\ Cardinality(DOMAIN top[1]) <= 10
                   /\ DOMAIN top[1] \subseteq ValidProducts(df)
                   /\ \A p \in DOMAIN top[1] : \A q \in ValidProducts(df) \ DOMAIN top[1] :
                         TotalSales(df, q) <= TotalSales(df, p)

\* what holds: the ranking is by the total rounded to cents, so a product left
\* out has a rounded total no larger than that of a product kept, and the kept
\* products are 10 or all of them
C24_TopTenByRoundedSales ==
    Summarized =>
        /\ ~ret.raised
        /\ \A df \in {df_out[1]} : \A top \in {ret.data[1].top_products} :
              IF ValidProducts(df) = {} THEN top = None
              ELSE /\ top # None
                   /\ Cardinality(DOMAIN top[1]) <= 10
                   /\ Cardinality(DOMAIN top[1]) = 10
                        \/ DOMAIN top[1] = ValidProducts(df)
                   /\ DOMAIN top[1] \subseteq ValidProducts(df)
                   /\ \A p \in DOMAIN top[1] :
                         /\ top[1][p].sum = round2(TotalSales(df, p))
                         /\ \A q \in ValidProducts(df) \ DOMAIN top[1] :
                               round2(TotalSales(df, q)) <= top[1][p].sum

\* eleven valid products were summarized, one of them left out
C24_ProductLeftOut ==
    /\ Summarized
    /\ ret.data # None
    /\ ret.data[1].top_products # None
    /\ Cardinality(DOMAIN ret.data[1].top_products[1]) = 10
    /\ Cardinality(ValidProducts(df_out[1])) > 10

\* rows were summarized none of which has a valid Product
C24_NoValidProduct ==
    /\ Summarized
    /\ Len(df_out[1].rows) > 0
    /\ ValidProducts(df_out[1]) = {}
    /\ ret.data # None

--------------------------------------------------------------------------
(* C25: a failed file leaves the session state alone *)

\* the rows of the merged table m that carry the file name in Source_File
RowsFrom(m, name) ==
    Cardinality({r \in DOMAIN m.rows : SourceFileOf(m, r) = FileCell(name)})

\* the names whose most recent outcome in the call that just returned is a failure
FailedNames(c, r) ==
    IF c.op = "process_single_file"
    THEN IF r.raised THEN {Name(c.file_paths[1])} ELSE {}
    ELSE IF c.op = "process_multiple_files"
    THEN {r.results[i].name : i \in {j \in DOMAIN r.results : ~r.results[j].success}}
    ELSE {}

\* the names a list of paths stores under: those of its paths that can be processed
StoredNames(file_paths) ==
    {Name(file_paths[i]) : i \in {j \in DOMAIN file_paths : file_paths[j] \notin FailingPaths}}

\* C25: a process_single_file call that raises leaves processed_files and
\* combined_data as they were; process_multiple_files leaves combined_data alone and
\* leaves alone the entry (or absence) of every name none of whose paths could be
\* processed; and a merge called right after a name's processing failed still holds
\* every row of the table stored earlier under that name
C25_FailureLeavesState ==
    [][/\ (call'.op = "process_single_file" /\ ret'.raised)
            => processed_files' = processed_files /\ combined_data' = combined_data
       /\ call'.op = "process_multiple_files"
            => /\ combined_data' = combined_data
               /\ \A name \in {Name(p) : p \in Paths} \ StoredNames(call'.file_paths) :
                     /\ DictHas(processed_files', name) = DictHas(processed_files, name)
                     /\ DictHas(processed_files, name)
                          => DictGet(processed_files', name) = DictGet(processed_files, name)
       /\ (call'.op = "combine_all_data" /\ ret'.data # None)
            => \A name \in FailedNames(call, ret) :
                  DictHas(processed_files, name)
                     => RowsFrom(ret'.data[1], name)
                          = Len(DictGet(processed_files, name).processed_data.rows)]_vars

\* a file failed although a table is stored under its name from an earlier run
C25_Witness ==
    /\ FailedNames(call, ret) # {}
    /\ \E name \in FailedNames(call, ret) :
          /\ DictHas(processed_files, name)
          /\ Len(DictGet(processed_files, name).processed_data.rows) > 0

\* a merge that holds the rows of a file while the last attempt on that name failed
\* (the path that failed is not among those that were ever processed)
C25_MergedAfterFailure ==
    /\ MergeSucceeded
    /\ \E p \in FailingPaths :
          /\ DictHas(processed_files, Name(p))
          /\ RowsFrom(Merged, Name(p)) > 0

--------------------------------------------------------------------------
(* C26: the fallback tier on the tables of the pipeline *)

\* the tables the merge reads, as it groups them
MergeInputs == combined_data_list(processed_files)

FallbackCompleted == MergeSucceeded /\ call.fault.kind = "union"

\* C26: when the fallback tier merges the stored tables, every fold step finds a
\* common column, the merged table has as many rows as the stored non-empty tables
\* together, and its columns are the labels all of them have, Source_File among them
C26_PipelineFallback ==
    FallbackCompleted =>
        \A list \in {MergeInputs} : \A groups \in {MergedGroups(list)} :
            /\ \A k \in 1..(Len(groups) - 1) :
                  Range(Fold(groups, k - 1).columns) \cap Range(groups[k + 1].columns) # {}
            /\ Len(Merged.rows) = SumSeq([i \in DOMAIN list |-> Len(list[i].df.rows)])
            /\ Range(Merged.columns) =
                  {c \in AllColumns(list) : \A i \in DOMAIN list : HasColumn(list[i].df, c)}
            /\ HasColumn(Merged, "Source_File")
            /\ \A c \in Range(Merged.columns) : ~Duplicated(Merged, c)

\* the fallback folded three groups of different columns: a column of one table is
\* not in the result, and the rows of all are
C26_Witness ==
    /\ FallbackCompleted
    /\ Len(MergedGroups(MergeInputs)) = 3
    /\ Range(Merged.columns) # AllColumns(MergeInputs)
    /\ Len(Merged.rows) > Len(MergeInputs[1].df.rows)
    /\ HasColumn(Merged, "Source_File")

--------------------------------------------------------------------------
(* C27: repeated rows after the full cleaning *)

FullCleaned == df_out # None /\ call.op = "init" /\ has_sales_data(df_in)

\* the rows of the input that are kept: those no earlier row equals once missing
\* Price and Region are filled
DistinctRowsIn == Cardinality(KeptRows)

\* C27 (as claimed): the table the full cleaning returns has no two equal rows
C27_NoRepeatedRowAfterCleaning ==
    FullCleaned =>
        \A rows \in {df_out[1].rows} :
            \A i, j \in DOMAIN rows : rows[i] = rows[j] => i = j

\* what holds: the cleaned table has one row for each row of the input that no
\* earlier row equals after Price and Region are filled, so rows are dropped at
\* step 3 only; rows that become equal later are all kept
C27_RowsDroppedAtDedupOnly ==
    FullCleaned => Len(df_out[1].rows) = DistinctRowsIn

\* two rows that differ only in Order_Date texts that are not dates are both kept
\* and come out equal
C27_EqualAfterDateParsing ==
    /\ FullCleaned
    /\ \E i, j \in DOMAIN df_out[1].rows :
          /\ i # j
          /\ df_out[1].rows[i] = df_out[1].rows[j]
          /\ isnull(Column(df_out[1], "Order_Date")[i])

\* two rows that differ only in Quantity are both clamped to the bound
C27_EqualAfterClamp ==
    /\ FullCleaned
    /\ \E i, j \in DOMAIN df_out[1].rows :
          /\ i # j
          /\ df_out[1].rows[i] = df_out[1].rows[j]
          /\ ~isnull(Column(df_out[1], "Order_Date")[i])
          /\ ~IntegerColumn(<<Column(df_out[1], "Quantity")[i]>>)
             \/ Column(df_out[1], "Quantity")[i] = Num(13)

--------------------------------------------------------------------------
(* C29: the cleaned tables save_results writes *)

SavedSeparate == call.op = "save_results" /\ call.separate_files

\* the entries of the returned list that name a cleaned table
PerFileSaved == SelectSeq(ret.saved_files, LAMBDA f : f.kind = "processed")

\* C29 (as claimed): a save with separate files returns one path per stored table
\* with rows, no path twice, and every such table is the content of a file the
\* call wrote
C29_OneOutputPerFile ==
    SavedSeparate =>
        /\ Len(PerFileSaved) = Len(NonEmptyEntries)
        /\ \A i, j \in DOMAIN PerFileSaved : PerFileSaved[i] = PerFileSaved[j] => i = j
        /\ \A i \in DOMAIN NonEmptyEntries :
              \E j \in DOMAIN PerFileSaved :
                 written[PerFileSaved[j]] = NonEmptyEntries[i].processed_data

\* what holds: one path is returned per stored table with rows, in the order of
\* the entries, built from the stem of the file name alone; the file of that name
\* holds the table of the last entry with that stem
C29_OutputNamedByStem ==
    SavedSeparate =>
        /\ Len(PerFileSaved) = Len(NonEmptyEntries)
        /\ \A i \in DOMAIN NonEmptyEntries :
              /\ PerFileSaved[i].stem = Stem(NonEmptyEntries[i].name)
              /\ (\A j \in (i + 1)..Len(NonEmptyEntries) :
                     Stem(NonEmptyEntries[j].name) # Stem(NonEmptyEntries[i].name))
                  => written[PerFileSaved[i]] = NonEmptyEntries[i].processed_data

\* x.csv and x.xlsx were both saved: the same path twice, holding the later table
C29_SameStemSaved ==
    /\ SavedSeparate
    /\ Len(PerFileSaved) = 2
    /\ PerFileSaved[1] = PerFileSaved[2]
    /\ NonEmptyEntries[1].processed_data # NonEmptyEntries[2].processed_data
    /\ written[PerFileSaved[1]] = NonEmptyEntries[2].processed_data

--------------------------------------------------------------------------
(* C30: merging leaves the stored tables alone and can be repeated *)

\* two results of combine_all_data with the same labels and, row by row, the same
\* value under each label
SameTable(a, b) ==
    IF a = None \/ b = None THEN a = b
    ELSE /\ Range(a[1].columns) = Range(b[1].columns)
         /\ RowsByLabel(a[1]) = RowsByLabel(b[1])

\* C30: a combine_all_data call, whichever tier runs and also when it fails, leaves
\* processed_files as it was; and a second call right after a first, taking the
\* same path through the tiers, returns a table with the same labels and rows
C30_MergeRepeatable ==
    [][call'.op = "combine_all_data"
         => /\ processed_files' = processed_files
            /\ (call.op = "combine_all_data" /\ call.fault = call'.fault)
                  => SameTable(ret.data, ret'.data)]_vars

\* a merge repaired a repeated label in its result while the stored table still has
\* the label twice
C30_Witness ==
    /\ MergeSucceeded
    /\ \E i \in DOMAIN processed_files : ColumnsDuplicated(processed_files[i].processed_data)
    /\ ~ColumnsDuplicated(Merged)

\* the fallback tier returned a table and self.combined_data already held the
\* table of an earlier merge
C30_FallbackAfterMerge ==
    /\ FallbackCompleted
    /\ Len(MergedGroups(MergeInputs)) = 2
    /\ SameTable(combined_data, ret.data)

====
